---- MODULE Spec2Model ----
(***************************************************************************)
(* Model of the multi-QR text codec in services/qr_tools.py and of the     *)
(* HTTP handlers in blueprints/api.py and blueprints/web.py.               *)
(*                                                                         *)
(* A Python str is a sequence of code points (ord of each character) and   *)
(* a bytes object a sequence of numbers below 256.  Python's None is the   *)
(* empty tuple and a present value x is the one-element tuple <<x>>, so    *)
(* that None and the empty string are different values.                    *)
(***************************************************************************)
EXTENDS Integers, Sequences, FiniteSets, TLC

VARIABLES
    op,          \* the operation that produced the current state
    in_text,     \* text handed to encode / wrap: the data a handler has read
    in_chunk,    \* chunk_size handed to encode, None when int() raised
    in_pass,     \* passphrase handed to encode, None when none was read
    payload,     \* the string handed to the chunker (wrapped, maybe encrypted)
    image,       \* the strings of the QR symbols tiled in the image, in tile order
    enc_err,     \* the error of the encode operation, or None
    http_status, \* the status of a handler's response, 0 outside a handler
    readable,    \* whether the uploaded bytes open as a raster image
    scanned,     \* what the scanner returns for the image, in its order
    dec_pass,    \* passphrase handed to decode_big_qr_to_text
    reasm,       \* what _decode_big_image returned inside the last decode
    decrypted,   \* what maybe_decrypt returned inside the last decode
    result       \* what the last decode / unwrap returned

vars == <<op, in_text, in_chunk, in_pass, payload, image, enc_err, http_status,
          readable, scanned, dec_pass, reasm, decrypted, result>>

-----------------------------------------------------------------------------
(* Bounds of the model *)

\* longest text handed to encode
MaxTextLen == 2
\* most strings the scanner returns for one encoded image
MaxScanned == 4
\* largest chunk_size the encode handlers are given
MaxChunk == 30
\* most symbols reported for an uploaded picture of arbitrary symbols
MaxStray == 3

-----------------------------------------------------------------------------
(* Optional values and small helpers *)

None == <<>>
Some(x) == <<x>>

RECURSIVE SeqsUpTo(_, _)
\* every sequence over S of length at most n
SeqsUpTo(S, n) ==
    IF n = 0 THEN {<<>>}
    ELSE LET shorter == SeqsUpTo(S, n - 1)
         IN  shorter \cup {Append(s, c) : s \in {t \in shorter : Len(t) = n - 1}, c \in S}

\* "".join(ss)
Concat(ss) ==
    LET RECURSIVE Range(_, _)
        \* ss[lo] \o ... \o ss[hi]
        Range(lo, hi) ==
            IF lo > hi THEN <<>>
            ELSE IF lo = hi THEN ss[lo]
            ELSE Range(lo, (lo + hi) \div 2) \o Range((lo + hi) \div 2 + 1, hi)
    IN  Range(1, Len(ss))

\* n copies of x
Repeat(x, n) == <<>> \o [i \in 1..n |-> x]

-----------------------------------------------------------------------------
(* Characters: a character is its code point *)

\* printable ASCII, U+0020 .. U+007E (U+0060 by name), in code point order
Ascii == << " ","!","\"","#","$","%","&","'","(",")","*","+",",","-",".","/",
            "0","1","2","3","4","5","6","7","8","9",":",";","<","=",">","?",
            "@","A","B","C","D","E","F","G","H","I","J","K","L","M","N","O",
            "P","Q","R","S","T","U","V","W","X","Y","Z","[","\\","]","^","_",
            "<grave>","a","b","c","d","e","f","g","h","i","j","k","l","m","n","o",
            "p","q","r","s","t","u","v","w","x","y","z","{","|","}","~" >>

OrdOf == [c \in {Ascii[i] : i \in 1..Len(Ascii)} |->
             31 + CHOOSE i \in 1..Len(Ascii) : Ascii[i] = c]

\* ord(c) of a printable ASCII character
C(c) == OrdOf[c]

\* the str whose characters are written one by one
Str(s) == [i \in 1..Len(s) |-> C(s[i])]

\* "0".."9"
DigitSet == C("0")..C("9")

\* the characters of "0123456789abcdef"
HexDigits == Str(<<"0","1","2","3","4","5","6","7","8","9","a","b","c","d","e","f">>)

\* the value of a hex digit, [0-9A-Fa-f]
HexVal(c) ==
    IF c \in DigitSet THEN c - C("0")
    ELSE IF c \in C("a")..C("f") THEN c - C("a") + 10
    ELSE c - C("A") + 10

\* str.isspace(): what str.strip() strips
PyWhitespace == (9..13) \cup (28..32) \cup {133, 160, 5760} \cup (8192..8202)
                    \cup {8232, 8233, 8239, 8287, 12288}

\* the zero of every run of ten decimal digits of the Unicode database
DecimalZeros ==
    { 48, 1632, 1776, 1984, 2406, 2534, 2662, 2790, 2918, 3046, 3174, 3302, 3430,
      3558, 3664, 3792, 3872, 4160, 4240, 6112, 6160, 6470, 6608, 6784, 6800, 6992,
      7088, 7232, 7248, 42528, 43216, 43264, 43472, 43504, 43600, 44016, 65296,
      66720, 68912, 69734, 69872, 69942, 70096, 70384, 70736, 70864, 71248, 71360,
      71472, 71904, 72016, 72784, 73040, 73120, 92768, 92864, 93008, 120782,
      120792, 120802, 120812, 120822, 123200, 123632, 125264, 130032 }

IsDecimal(c) == \E z \in DecimalZeros : c \in z..(z + 9)

\* what the JSON decoder skips between tokens: " \t\n\r"
JsonWhitespace == {32, 9, 10, 13}

\* characters a JSON string holds only escaped
ControlChars == 0..31

-----------------------------------------------------------------------------
(* str.encode("utf-8") and bytes.decode("utf-8") *)

\* no surrogate, U+D800 .. U+DFFF, which UTF-8 does not encode
IsEncodable(s) == \A i \in 1..Len(s) : s[i] \notin 55296..57343

\* the bytes of one code point that is no surrogate
Utf8Char(c) ==
    IF c < 128 THEN <<c>>
    ELSE IF c < 2048 THEN <<192 + c \div 64, 128 + (c % 64)>>
    ELSE IF c < 65536 THEN <<224 + c \div 4096, 128 + ((c \div 64) % 64), 128 + (c % 64)>>
    ELSE <<240 + c \div 262144, 128 + ((c \div 4096) % 64), 128 + ((c \div 64) % 64),
           128 + (c % 64)>>

\* s.encode("utf-8") of an encodable s
Utf8(s) == Concat([i \in 1..Len(s) |-> Utf8Char(s[i])])

\* The decoder reads a byte at a time: need is the number of continuation
\* bytes still to come, cp what the bytes read so far give of the code
\* point, lo .. hi where the next continuation byte must lie (which rules
\* out overlong forms, surrogates and what is above U+10FFFF).

\* the decoder after one more byte
Utf8Step(st, b) ==
    LET \* a lead byte announcing need continuation bytes
        Lead(need, cp, lo, hi) == [st EXCEPT !.need = need, !.cp = cp, !.lo = lo, !.hi = hi]
    IN
    IF ~st.ok THEN st
    ELSE IF st.need = 0 THEN
        IF b < 128 THEN [st EXCEPT !.val = Append(@, b)]
        ELSE IF b \in 194..223 THEN Lead(1, b - 192, 128, 191)
        ELSE IF b = 224 THEN Lead(2, 0, 160, 191)
        ELSE IF b = 237 THEN Lead(2, 13, 128, 159)
        ELSE IF b \in 225..239 THEN Lead(2, b - 224, 128, 191)
        ELSE IF b = 240 THEN Lead(3, 0, 144, 191)
        ELSE IF b \in 241..243 THEN Lead(3, b - 240, 128, 191)
        ELSE IF b = 244 THEN Lead(3, 4, 128, 143)
        ELSE [st EXCEPT !.ok = FALSE]
    ELSE IF b \notin st.lo..st.hi THEN [st EXCEPT !.ok = FALSE]
    ELSE IF st.need = 1
        THEN [st EXCEPT !.need = 0, !.val = Append(@, st.cp * 64 + (b - 128))]
    ELSE [st EXCEPT !.need = @ - 1, !.cp = @ * 64 + (b - 128), !.lo = 128, !.hi = 191]

\* b.decode("utf-8"): the text of the decoder that has read every byte; ok
\* is FALSE when it raises
Utf8Decode(b) ==
    LET RECURSIVE Run(_, _, _)
        \* the decoder after the bytes lo .. hi of b: after those of the
        \* first half, then those of the second
        Run(st, lo, hi) ==
            IF lo > hi THEN st
            ELSE IF lo = hi THEN Utf8Step(st, b[lo])
            ELSE CHOOSE end \in {Run(mid, (lo + hi) \div 2 + 1, hi) :
                                 mid \in {Run(st, lo, (lo + hi) \div 2)}} : TRUE
    IN  CHOOSE r \in {[ok |-> st.ok /\ st.need = 0,
                       val |-> IF st.ok /\ st.need = 0 THEN st.val ELSE <<>>] :
                      st \in {Run([ok |-> TRUE, val |-> <<>>, need |-> 0, cp |-> 0,
                                   lo |-> 128, hi |-> 191], 1, Len(b))}} : TRUE

-----------------------------------------------------------------------------
(* The texts of the runs, and tables of what is computed of them again and  *)
(* again: the value of a table entry is that of the operator it stands for. *)

\* texts of the frame separator, a character JSON escapes with a backslash,
\* and a character of two UTF-8 bytes
Texts == SeqsUpTo({C("|"), C("\""), 233}, MaxTextLen)

\* the "data" of a form: a string, blank ones among them
FormTexts == SeqsUpTo({C("a"), C(" "), C("|")}, MaxTextLen)

\* the texts wrapped and tampered with: of an ordinary character, the two
\* characters JSON escapes with a backslash before them, and one it escapes
\* as \u001b; and the six characters \ud800, which spell the escape of half
\* a surrogate pair
EnvelopeTexts ==
    SeqsUpTo({C("a"), C("\""), C("\\"), 27}, MaxTextLen)
        \cup {Str(<<"\\", "u", "d", "8", "0", "0">>)}

\* what a table of pairs <<x, y>> holds for x, and v when it holds nothing
Lookup(table, x, v) ==
    IF \E e \in table : e[1] = x THEN (CHOOSE e \in table : e[1] = x)[2] ELSE v

-----------------------------------------------------------------------------
(* Bytes: the exclusive or of two bytes, read from a table *)

\* a ^ b of two bytes a and b, at a * 256 + b + 1
Xor8 ==
    LET RECURSIVE XorBits(_, _, _)
        \* a ^ b of two numbers of n bits
        XorBits(a, b, n) ==
            IF n = 0 THEN 0 ELSE ((a + b) % 2) + 2 * XorBits(a \div 2, b \div 2, n - 1)
    IN  <<>> \o [j \in 1..65536 |-> XorBits((j - 1) \div 256, (j - 1) % 256, 8)]

\* bytes(x ^ y for x, y in zip(a, b))
XorBytes(a, b) == <<>> \o [i \in 1..Len(a) |-> Xor8[a[i] * 256 + b[i] + 1]]

-----------------------------------------------------------------------------
(* hashlib.sha256: SHA-256 as FIPS 180-4 defines it.  A 32-bit word is the  *)
(* pair <<high, low>> of its 16-bit halves.                                 *)

\* the round constants K[0..63]
Sha256K ==
    << <<17034, 12184>>, <<28983, 17553>>, <<46528, 64463>>, <<59829, 56229>>, <<14678,
       49755>>, <<23025, 4593>>, <<37439, 33444>>, <<43804, 24277>>, <<55303, 43672>>,
       <<4739, 23297>>, <<9265, 34238>>, <<21772, 32195>>, <<29374, 23924>>, <<32990,
       45566>>, <<39900, 1703>>, <<49563, 61812>>, <<58523, 27073>>, <<61374, 18310>>,
       <<4033, 40390>>, <<9228, 41420>>, <<11753, 11375>>, <<19060, 33962>>, <<23728,
       43484>>, <<30457, 35034>>, <<38974, 20818>>, <<43057, 50797>>, <<45059, 10184>>,
       <<48985, 32711>>, <<50912, 3059>>, <<54695, 37191>>, <<1738, 25425>>, <<5161,
       10599>>, <<10167, 2693>>, <<11803, 8504>>, <<19756, 28156>>, <<21304, 3347>>,
       <<25866, 29524>>, <<30314, 2747>>, <<33218, 51502>>, <<37490, 11397>>, <<41663,
       59553>>, <<43034, 26187>>, <<49739, 35696>>, <<51052, 20899>>, <<53650, 59417>>,
       <<54937, 1572>>, <<62478, 13701>>, <<4202, 41072>>, <<6564, 49430>>, <<7735,
       27656>>, <<10056, 30540>>, <<13488, 48309>>, <<14620, 3251>>, <<20184, 43594>>,
       <<23452, 51791>>, <<26670, 28659>>, <<29839, 33518>>, <<30885, 25455>>, <<33992,
       30740>>, <<36039, 520>>, <<37054, 65530>>, <<42064, 27883>>, <<48889, 41975>>,
       <<50801, 30962>> >>

\* the hash value after one more 64-byte block: the message schedule, the 64
\* rounds over the working variables a..h, and their sum with the old value
Sha256Compress(h, block) ==
    LET XorH(a, b) == Xor8[(a \div 256) * 256 + (b \div 256) + 1] * 256
                          + Xor8[(a % 256) * 256 + (b % 256) + 1]
        AndH(a, b) == (a + b - XorH(a, b)) \div 2
        Xor3(x, y, z) == <<XorH(XorH(x[1], y[1]), z[1]), XorH(XorH(x[2], y[2]), z[2])>>
        RotR(x, n) ==
            IF n < 16
            THEN <<(x[1] \div 2^n) + (x[2] % 2^n) * 2^(16 - n),
                   (x[2] \div 2^n) + (x[1] % 2^n) * 2^(16 - n)>>
            ELSE <<(x[2] \div 2^(n - 16)) + (x[1] % 2^(n - 16)) * 2^(32 - n),
                   (x[1] \div 2^(n - 16)) + (x[2] % 2^(n - 16)) * 2^(32 - n)>>
        ShR(x, n) == <<x[1] \div 2^n, (x[2] \div 2^n) + (x[1] % 2^n) * 2^(16 - n)>>
        \* the word of the sums hs and ls of high and low halves, mod 2^32
        Word(hs, ls) == <<(hs + ls \div 65536) % 65536, ls % 65536>>
        Ch(e, f, g) == [i \in 1..2 |-> XorH(AndH(e[i], f[i]), AndH(65535 - e[i], g[i]))]
        Maj(a, b, c) ==
            [i \in 1..2 |-> XorH(XorH(AndH(a[i], b[i]), AndH(a[i], c[i])), AndH(b[i], c[i]))]
        RECURSIVE Schedule(_)
        Schedule(w) ==
            IF Len(w) = 64 THEN w
            ELSE CHOOSE all \in
                {Schedule(Append(w, Word(s1[1] + w[Len(w) - 6][1] + s0[1] + w[Len(w) - 15][1],
                                         s1[2] + w[Len(w) - 6][2] + s0[2] + w[Len(w) - 15][2]))) :
                 s1 \in {Xor3(RotR(w[Len(w) - 1], 17), RotR(w[Len(w) - 1], 19),
                              ShR(w[Len(w) - 1], 10))},
                 s0 \in {Xor3(RotR(w[Len(w) - 14], 7), RotR(w[Len(w) - 14], 18),
                              ShR(w[Len(w) - 14], 3))}} : TRUE
        Round(v, k, w) ==
            CHOOSE next \in
                {<<Word(t1[1] + t2[1], t1[2] + t2[2]), v[1], v[2], v[3],
                   Word(v[4][1] + t1[1], v[4][2] + t1[2]), v[5], v[6], v[7]>> :
                 t1 \in {CHOOSE t \in
                            {Word(v[8][1] + s1[1] + ch[1] + k[1] + w[1],
                                  v[8][2] + s1[2] + ch[2] + k[2] + w[2]) :
                             s1 \in {Xor3(RotR(v[5], 6), RotR(v[5], 11), RotR(v[5], 25))},
                             ch \in {Ch(v[5], v[6], v[7])}} : TRUE},
                 t2 \in {CHOOSE t \in
                            {Word(s0[1] + mj[1], s0[2] + mj[2]) :
                             s0 \in {Xor3(RotR(v[1], 2), RotR(v[1], 13), RotR(v[1], 22))},
                             mj \in {Maj(v[1], v[2], v[3])}} : TRUE}} : TRUE
        RECURSIVE Rounds(_, _, _, _)
        Rounds(v, w, lo, hi) ==
            IF lo = hi THEN Round(v, Sha256K[lo], w[lo])
            ELSE CHOOSE end \in {Rounds(mid, w, (lo + hi) \div 2 + 1, hi) :
                                 mid \in {Rounds(v, w, lo, (lo + hi) \div 2)}} : TRUE
    IN  CHOOSE next \in
            {[i \in 1..8 |-> Word(h[i][1] + v[i][1], h[i][2] + v[i][2])] :
             v \in {Rounds(h, w, 1, 64) :
                    w \in {Schedule([i \in 1..16 |->
                                        <<block[4 * i - 3] * 256 + block[4 * i - 2],
                                          block[4 * i - 1] * 256 + block[4 * i]>>])}}} : TRUE

\* hashlib.sha256(b).digest(): b is padded with 0x80, zeros and its length in
\* bits to a multiple of 64 bytes, the blocks are compressed in turn from
\* the initial hash value H(0) on, and the digest is the bytes of the last
\* hash value
Sha256(b) ==
    LET RECURSIVE Blocks(_, _, _)
        \* the hash value after the blocks of the padded message p from byte i on
        Blocks(h, p, i) ==
            IF i > Len(p) THEN h
            ELSE CHOOSE end \in {Blocks(next, p, i + 64) :
                                 next \in {Sha256Compress(h, SubSeq(p, i, i + 63))}} : TRUE
    IN  CHOOSE digest \in
            {<<>> \o [i \in 1..32 |->
                        IF i % 2 = 1 THEN h[(i + 3) \div 4][1 + ((i - 1) % 4) \div 2] \div 256
                        ELSE h[(i + 3) \div 4][1 + ((i - 1) % 4) \div 2] % 256] :
             h \in {Blocks(<< <<27145, 58983>>, <<47975, 44677>>, <<15470, 62322>>,
                              <<42319, 62778>>, <<20750, 21119>>, <<39685, 26764>>,
                              <<8067, 55723>>, <<23520, 52505>> >>, p, 1) :
                    p \in {b \o <<128>> \o [i \in 1..((119 - (Len(b) % 64)) % 64) |-> 0]
                             \o <<0, 0, 0, 0, (Len(b) * 8) \div 16777216,
                                  ((Len(b) * 8) \div 65536) % 256,
                                  ((Len(b) * 8) \div 256) % 256, (Len(b) * 8) % 256>>}}} : TRUE

\* every byte of b in two lowercase hex digits
HexOf(b) ==
    Concat([i \in 1..Len(b) |->
               <<HexDigits[(b[i] \div 16) + 1], HexDigits[(b[i] % 16) + 1]>>])

\* the hexdigests of the texts of the runs
Digests ==
    {<<s, HexOf(Sha256(Utf8(s)))>> :
     s \in Texts \cup FormTexts \cup EnvelopeTexts \cup {Str(<<"a", "|">>)}}

\* hashlib.sha256(s.encode("utf-8")).hexdigest() of an encodable s
Sha256Hex(s) == Lookup(Digests, s, HexOf(Sha256(Utf8(s))))
-----------------------------------------------------------------------------
(* json.dumps(obj, ensure_ascii=False) and json.loads(payload) *)

\* the JSON encoder's escape of one character: quote, backslash and what is
\* below U+0020 are escaped (by a letter, or by "\\u" and four lowercase hex
\* digits), everything else is kept as it is
EscapeChar(c) ==
    CASE c = C("\"") -> Str(<<"\\", "\"">>)
      [] c = C("\\") -> Str(<<"\\", "\\">>)
      [] c = 10 -> Str(<<"\\", "n">>)
      [] c = 13 -> Str(<<"\\", "r">>)
      [] c = 9  -> Str(<<"\\", "t">>)
      [] c = 12 -> Str(<<"\\", "f">>)
      [] c = 8  -> Str(<<"\\", "b">>)
      [] c \in ControlChars \ {8, 9, 10, 12, 13} ->
            Str(<<"\\", "u", "0", "0">>) \o <<HexDigits[(c \div 16) + 1], HexDigits[(c % 16) + 1]>>
      [] OTHER -> <<c>>

\* the escaped characters of s between quotes
JsonString(s) ==
    <<C("\"")>> \o Concat([i \in 1..Len(s) |-> EscapeChar(s[i])]) \o <<C("\"")>>

\* json.dumps({"hash": sha, "text": text}, ensure_ascii=False)
JsonDumps(sha, text) ==
    <<C("{")>> \o JsonString(Str(<<"h","a","s","h">>)) \o Str(<<":", " ">>)
      \o JsonString(sha) \o Str(<<",", " ">>) \o JsonString(Str(<<"t","e","x","t">>))
      \o Str(<<":", " ">>) \o JsonString(text) \o <<C("}")>>

\* sys.getrecursionlimit(): how many Python frames and nested calls of the
\* C scanner a thread may have in use
RecursionLimit == 1000

\* sys.get_int_max_str_digits(): the most digits int() and the decoder
\* convert to an int
MaxStrDigits == 4300

\* a field of the decoded object: its kind is "absent", "str" or "other"
Absent == [kind |-> "absent", val |-> <<>>]
OtherField == [kind |-> "other", val |-> <<>>]

\* The decoder reads the document one character at a time.  mode is what it
\* is in or waits for, stack the containers open around it, close_ok
\* whether the container just opened may close at once, kind the kind of the
\* document's value, acc the characters of the string being read, pend
\* whether its last character is a high surrogate written as an escape
\* that the next escape may complete, hex the digits of the escape being
\* read, rest what is left of a literal, key the key of the member being
\* read in the outermost object, hash and text the values stored under
\* "hash" and "text" there, room the nesting at which the scanner exhausts
\* the recursion limit, digits the digits of the integer being read.
JsonStart ==
    [ok |-> TRUE, mode |-> "value", close_ok |-> FALSE, stack |-> <<>>, kind |-> "none",
     iskey |-> FALSE, acc |-> <<>>, pend |-> FALSE, hex |-> <<>>, rest |-> <<>>,
     key |-> <<>>, hash |-> Absent, text |-> Absent, room |-> RecursionLimit, digits |-> 0]

\* the decoder raises: JSONDecodeError, or RecursionError, or the ValueError
\* of an integer of too many digits
JsonFail(st) == [st EXCEPT !.ok = FALSE]

\* a value is complete: in the outermost object it is stored under its key,
\* a later member of the same key replacing an earlier one
ValueDone(st, field) ==
    IF Len(st.stack) = 1 /\ st.stack[1] = "obj"
    THEN [st EXCEPT !.mode = "after",
                    !.hash = IF st.key = Str(<<"h","a","s","h">>) THEN field ELSE @,
                    !.text = IF st.key = Str(<<"t","e","x","t">>) THEN field ELSE @]
    ELSE [st EXCEPT !.mode = "after"]

\* the innermost container closes
CloseStep(st) == ValueDone([st EXCEPT !.stack = SubSeq(@, 1, Len(@) - 1)], OtherField)

\* the first character c of a value; the scanner calls itself for every
\* container it enters
StartValue(st, c) ==
    IF c \in {C("{"), C("[")} /\ Len(st.stack) + 1 >= st.room THEN JsonFail(st)
    ELSE IF c = C("{")
        THEN [st EXCEPT !.stack = Append(@, "obj"), !.mode = "key", !.close_ok = TRUE]
    ELSE IF c = C("[")
        THEN [st EXCEPT !.stack = Append(@, "arr"), !.mode = "value", !.close_ok = TRUE]
    ELSE IF c = C("\"")
        THEN [st EXCEPT !.mode = "str", !.iskey = FALSE, !.acc = <<>>, !.pend = FALSE]
    ELSE IF c = C("-") THEN [st EXCEPT !.mode = "minus", !.digits = 0]
    ELSE IF c = C("0") THEN [st EXCEPT !.mode = "zero", !.digits = 1]
    ELSE IF c \in DigitSet THEN [st EXCEPT !.mode = "int", !.digits = 1]
    ELSE IF c = C("t") THEN [st EXCEPT !.mode = "lit", !.rest = Str(<<"r","u","e">>)]
    ELSE IF c = C("f") THEN [st EXCEPT !.mode = "lit", !.rest = Str(<<"a","l","s","e">>)]
    ELSE IF c = C("n") THEN [st EXCEPT !.mode = "lit", !.rest = Str(<<"u","l","l">>)]
    ELSE IF c = C("N") THEN [st EXCEPT !.mode = "lit", !.rest = Str(<<"a","N">>)]
    ELSE IF c = C("I")
        THEN [st EXCEPT !.mode = "lit", !.rest = Str(<<"n","f","i","n","i","t","y">>)]
    ELSE JsonFail(st)

\* a value is awaited
ValueStep(st, c) ==
    IF c \in JsonWhitespace THEN st
    ELSE IF c = C("]") /\ st.close_ok THEN CloseStep(st)
    ELSE StartValue([st EXCEPT !.kind = IF @ # "none" THEN @
                                        ELSE IF c = C("{") THEN "obj" ELSE "other"], c)

\* the key of a member is awaited
KeyStep(st, c) ==
    IF c \in JsonWhitespace THEN st
    ELSE IF c = C("}") /\ st.close_ok THEN CloseStep(st)
    ELSE IF c = C("\"")
        THEN [st EXCEPT !.mode = "str", !.iskey = TRUE, !.acc = <<>>, !.pend = FALSE]
    ELSE JsonFail(st)

\* the colon after a key is awaited
ColonStep(st, c) ==
    IF c \in JsonWhitespace THEN st
    ELSE IF c = C(":") THEN [st EXCEPT !.mode = "value", !.close_ok = FALSE]
    ELSE JsonFail(st)

\* a value has ended: a comma or the end of its container is awaited, and
\* only blanks after the value of the document
AfterStep(st, c) ==
    IF c \in JsonWhitespace THEN st
    ELSE IF st.stack = <<>> THEN JsonFail(st)
    ELSE IF st.stack[Len(st.stack)] = "obj" THEN
        IF c = C(",") THEN [st EXCEPT !.mode = "key", !.close_ok = FALSE]
        ELSE IF c = C("}") THEN CloseStep(st)
        ELSE JsonFail(st)
    ELSE IF c = C(",") THEN [st EXCEPT !.mode = "value", !.close_ok = FALSE]
    ELSE IF c = C("]") THEN CloseStep(st)
    ELSE JsonFail(st)

\* inside a string (strict mode: no control character); the closing quote
\* ends a key or a value
StrStep(st, c) ==
    IF c = C("\"") THEN
        IF st.iskey
        THEN [st EXCEPT !.mode = "colon", !.key = IF Len(st.stack) = 1 THEN st.acc ELSE @]
        ELSE ValueDone(st, [kind |-> "str", val |-> st.acc])
    ELSE IF c = C("\\") THEN [st EXCEPT !.mode = "esc"]
    ELSE IF c \in ControlChars THEN JsonFail(st)
    ELSE [st EXCEPT !.acc = Append(@, c), !.pend = FALSE]

\* after a backslash: u, or a letter that stands for one character
EscStep(st, c) ==
    IF c = C("u") THEN [st EXCEPT !.mode = "hex", !.hex = <<>>]
    ELSE IF c \in {C("\""), C("\\"), C("/"), C("b"), C("f"), C("n"), C("r"), C("t")}
        THEN [st EXCEPT !.mode = "str", !.pend = FALSE,
                        !.acc = Append(@, CASE c = C("b") -> 8
                                            [] c = C("f") -> 12
                                            [] c = C("n") -> 10
                                            [] c = C("r") -> 13
                                            [] c = C("t") -> 9
                                            [] OTHER -> c)]
    ELSE JsonFail(st)

\* \uXXXX stands for v: a low surrogate right after an escaped high one
\* makes one character with it
EscapeDone(st, v) ==
    IF st.pend /\ v \in 56320..57343
    THEN [st EXCEPT !.mode = "str", !.pend = FALSE,
                    !.acc = [@ EXCEPT ![Len(@)] = 65536 + (@ - 55296) * 1024 + (v - 56320)]]
    ELSE [st EXCEPT !.mode = "str", !.acc = Append(@, v), !.pend = v \in 55296..56319]

\* the hex digits after \u
HexStep(st, c) ==
    IF c \notin DigitSet \cup (C("a")..C("f")) \cup (C("A")..C("F")) THEN JsonFail(st)
    ELSE IF Len(st.hex) < 3 THEN [st EXCEPT !.hex = Append(@, c)]
    ELSE EscapeDone(st, HexVal(st.hex[1]) * 4096 + HexVal(st.hex[2]) * 256
                            + HexVal(st.hex[3]) * 16 + HexVal(c))

\* inside a literal
LitStep(st, c) ==
    IF c # Head(st.rest) THEN JsonFail(st)
    ELSE IF Len(st.rest) = 1 THEN ValueDone(st, OtherField)
    ELSE [st EXCEPT !.rest = Tail(@)]

\* a number has ended before c: one with no fraction and no exponent is
\* converted to an int
NumberDone(st, c) ==
    IF st.mode \in {"zero", "int"} /\ st.digits > MaxStrDigits THEN JsonFail(st)
    ELSE AfterStep(ValueDone(st, OtherField), c)

\* inside a number: -?(0|[1-9][0-9]*)(\.[0-9]+)?([eE][-+]?[0-9]+)?
NumberStep(st, c) ==
    CASE st.mode = "minus" ->
            IF c = C("0") THEN [st EXCEPT !.mode = "zero", !.digits = 1]
            ELSE IF c \in DigitSet THEN [st EXCEPT !.mode = "int", !.digits = 1]
            ELSE IF c = C("I")
                THEN [st EXCEPT !.mode = "lit", !.rest = Str(<<"n","f","i","n","i","t","y">>)]
            ELSE JsonFail(st)
      [] st.mode \in {"zero", "int", "frac"} ->
            IF c \in DigitSet /\ st.mode = "int" THEN [st EXCEPT !.digits = @ + 1]
            ELSE IF c \in DigitSet /\ st.mode = "frac" THEN st
            ELSE IF c = C(".") /\ st.mode # "frac" THEN [st EXCEPT !.mode = "dot"]
            ELSE IF c \in {C("e"), C("E")} THEN [st EXCEPT !.mode = "e"]
            ELSE NumberDone(st, c)
      [] st.mode = "dot" -> IF c \in DigitSet THEN [st EXCEPT !.mode = "frac"] ELSE JsonFail(st)
      [] st.mode = "e" ->
            IF c \in DigitSet THEN [st EXCEPT !.mode = "exp"]
            ELSE IF c \in {C("+"), C("-")} THEN [st EXCEPT !.mode = "esign"]
            ELSE JsonFail(st)
      [] st.mode = "esign" -> IF c \in DigitSet THEN [st EXCEPT !.mode = "exp"] ELSE JsonFail(st)
      [] OTHER -> IF c \in DigitSet THEN st ELSE NumberDone(st, c)

\* the decoder after one more character
JsonStep(st, c) ==
    IF ~st.ok THEN st
    ELSE CASE st.mode = "value" -> ValueStep(st, c)
           [] st.mode = "key" -> KeyStep(st, c)
           [] st.mode = "colon" -> ColonStep(st, c)
           [] st.mode = "after" -> AfterStep(st, c)
           [] st.mode = "str" -> StrStep(st, c)
           [] st.mode = "esc" -> EscStep(st, c)
           [] st.mode = "hex" -> HexStep(st, c)
           [] st.mode = "lit" -> LitStep(st, c)
           [] OTHER -> NumberStep(st, c)

RECURSIVE JsonRun(_, _, _, _)
\* the decoder after the characters lo .. hi of s: after those of the first
\* half, then those of the second
JsonRun(st, s, lo, hi) ==
    IF lo > hi THEN st
    ELSE IF lo = hi THEN JsonStep(st, s[lo])
    ELSE CHOOSE end \in {JsonRun(mid, s, (lo + hi) \div 2 + 1, hi) :
                         mid \in {JsonRun(st, s, lo, (lo + hi) \div 2)}} : TRUE

\* json.loads(payload) called where frames Python frames are in use: ok is
\* FALSE when it raises, which it does unless the document is one whole
\* value.  loads, decode and raw_decode take a frame each, and every
\* container the scanner is in one more level of the recursion limit.
JsonLoads(s, frames) ==
    CHOOSE obj \in {[ok |-> st.ok /\ st.stack = <<>>
                           /\ st.mode \in {"after", "zero", "int", "frac", "exp"}
                           /\ (st.mode \in {"zero", "int"} => st.digits <= MaxStrDigits),
                     kind |-> st.kind, hash |-> st.hash, text |-> st.text] :
                    st \in {JsonRun([JsonStart EXCEPT !.room = RecursionLimit - frames - 3],
                                    s, 1, Len(s))}} : TRUE

-----------------------------------------------------------------------------
(* Checksum helpers *)

\* what a call returns: every field is None or Some(value)
Result(text, sha, err) == [text |-> text, sha |-> sha, err |-> err]

\* an error string a function returns; the absent indices are the list
\* printed in the message, and prefix is what a handler writes before it
Error(msg) == [prefix |-> "", msg |-> msg, missing |-> <<>>, raised |-> FALSE]

\* an exception that leaves the function instead of a return
Raised(exception) == [Error(exception) EXCEPT !.raised = TRUE]

\* an exception a handler caught and reports as a message
Caught(prefix, e) == [e EXCEPT !.prefix = prefix, !.raised = FALSE]

IntegrityError == Error("Integrity check failed (SHA-256 mismatch)")
DecryptionError == Error("Decryption failed. Wrong passphrase or corrupted data.")
NoCodesError == Error("No QR codes found.")
FormatError == Error("Invalid QR format.")
ImageError == Error("Invalid image: ")
MissingChunksError(missing) == [Error("Missing QR chunks: ") EXCEPT !.missing = missing]
ChunkSizeError == Raised("chunk_size must be positive")
EncodeError == Raised("UnicodeEncodeError")

\* the envelope of a text that text.encode("utf-8") accepts
wrap_payload_with_checksum(text) == JsonDumps(Sha256Hex(text), text)

\* a verification that trusts the stored hash without recomputing it
VerifyParsed_NoCompare(p, obj) ==
    IF ~obj.ok THEN Result(Some(p), None, None)
    ELSE IF obj.kind # "obj" THEN Result(Some(p), None, None)
    ELSE IF obj.hash.kind # "str" \/ obj.text.kind # "str"
        THEN Result(Some(p), None, None)
    ELSE Result(Some(obj.text.val), Some(obj.hash.val), None)

\* unwrap_and_verify_payload once payload p is parsed: obj is JsonLoads(p)
VerifyParsed(p, obj) ==
    IF ~obj.ok THEN Result(Some(p), None, None)
    ELSE IF obj.kind # "obj" THEN Result(Some(p), None, None)
    ELSE IF obj.hash.kind # "str" \/ obj.text.kind # "str"
        THEN Result(Some(p), None, None)
    ELSE IF ~IsEncodable(obj.text.val) THEN Result(None, None, Some(EncodeError))
    ELSE IF Sha256Hex(obj.text.val) # obj.hash.val
        THEN Result(None, Some(obj.hash.val), Some(IntegrityError))
    ELSE Result(Some(obj.text.val), Some(obj.hash.val), None)

\* returns (text, sha_stored, error), called where frames Python frames are
\* in use
unwrap_and_verify_payload(p, frames) ==
    CHOOSE r \in {VerifyParsed(p, obj) : obj \in {JsonLoads(p, frames + 1)}} : TRUE

-----------------------------------------------------------------------------
(* base64.urlsafe_b64encode and base64.urlsafe_b64decode *)

\* "ABC...XYZabc...xyz0123456789-_"
B64 == [i \in 1..64 |->
           IF i <= 26 THEN C("A") + i - 1
           ELSE IF i <= 52 THEN C("a") + i - 27
           ELSE IF i <= 62 THEN C("0") + i - 53
           ELSE IF i = 63 THEN C("-") ELSE C("_")]

B64Val(c) ==
    IF c \in C("A")..C("Z") THEN c - C("A")
    ELSE IF c \in C("a")..C("z") THEN c - C("a") + 26
    ELSE IF c \in DigitSet THEN c - C("0") + 52
    ELSE IF c \in {C("-"), C("+")} THEN 62
    ELSE 63

\* base64.urlsafe_b64encode(b)
B64Encode(b) ==
    LET \* the four characters of the group of bytes that starts at byte i
        Group(i) ==
            IF i = Len(b)
                THEN <<B64[b[i] \div 4 + 1], B64[(b[i] % 4) * 16 + 1], C("="), C("=")>>
            ELSE IF i + 1 = Len(b)
                THEN <<B64[b[i] \div 4 + 1], B64[(b[i] % 4) * 16 + b[i + 1] \div 16 + 1],
                       B64[(b[i + 1] % 16) * 4 + 1], C("=")>>
            ELSE <<B64[b[i] \div 4 + 1], B64[(b[i] % 4) * 16 + b[i + 1] \div 16 + 1],
                   B64[(b[i + 1] % 16) * 4 + b[i + 2] \div 64 + 1], B64[(b[i + 2] % 64) + 1]>>
    IN  Concat([g \in 1..((Len(b) + 2) \div 3) |-> Group(3 * g - 2)])

\* binascii.a2b_base64 reads a character at a time: quad counts the
\* characters of the current group, left holds their bits not written yet,
\* pads the "=" met in a row, done that the padding ended the input.

\* the decoder after one more character; characters outside the url-safe
\* alphabet, "+" and "/" are passed over
B64Step(st, c) ==
    IF st.done THEN st
    ELSE IF c = C("=") THEN
        IF st.quad >= 2 /\ st.quad + st.pads + 1 >= 4 THEN [st EXCEPT !.done = TRUE]
        ELSE [st EXCEPT !.pads = IF st.quad >= 2 THEN @ + 1 ELSE @]
    ELSE IF c \notin {B64[i] : i \in 1..64} \cup {C("+"), C("/")} THEN st
    ELSE IF st.quad = 0 THEN [st EXCEPT !.quad = 1, !.left = B64Val(c), !.pads = 0]
    ELSE IF st.quad = 1
        THEN [st EXCEPT !.quad = 2, !.left = B64Val(c) % 16, !.pads = 0,
                        !.out = Append(@, st.left * 4 + B64Val(c) \div 16)]
    ELSE IF st.quad = 2
        THEN [st EXCEPT !.quad = 3, !.left = B64Val(c) % 4, !.pads = 0,
                        !.out = Append(@, st.left * 16 + B64Val(c) \div 4)]
    ELSE [st EXCEPT !.quad = 0, !.left = 0, !.pads = 0,
                    !.out = Append(@, st.left * 64 + B64Val(c))]

\* base64.urlsafe_b64decode(b): the bytes of the decoder that has read every
\* character; ok is FALSE when it raises binascii.Error, for a group left
\* open unless padding ended the input
B64Decode(b) ==
    LET RECURSIVE Run(_, _, _)
        \* the decoder after the characters lo .. hi of b: after those of
        \* the first half, then those of the second
        Run(st, lo, hi) ==
            IF lo > hi THEN st
            ELSE IF lo = hi THEN B64Step(st, b[lo])
            ELSE CHOOSE end \in {Run(mid, (lo + hi) \div 2 + 1, hi) :
                                 mid \in {Run(st, lo, (lo + hi) \div 2)}} : TRUE
    IN  CHOOSE r \in {IF ~st.done /\ st.quad # 0 THEN [ok |-> FALSE, val |-> <<>>]
                      ELSE [ok |-> TRUE, val |-> st.out] :
                      st \in {Run([quad |-> 0, left |-> 0, pads |-> 0, out |-> <<>>,
                                   done |-> FALSE], 1, Len(b))}} : TRUE

-----------------------------------------------------------------------------
(* hmac and AES-128 in CBC mode (RFC 2104, FIPS 197, SP 800-38A), which     *)
(* Fernet signs and encrypts with.  An AES block is 16 bytes, byte          *)
(* r + 4c + 1 being row r of column c of the state.                         *)

\* hmac.new(key, msg, hashlib.sha256).digest()
HmacSha256(key, msg) ==
    CHOOSE tag \in
        {Sha256(XorBytes(k0, [i \in 1..64 |-> 92]) \o inner) :
         k0 \in {k \o [i \in 1..(64 - Len(k)) |-> 0] :
                 k \in {IF Len(key) > 64 THEN Sha256(key) ELSE key}},
         inner \in {Sha256(XorBytes(k0, [i \in 1..64 |-> 54]) \o msg) :
                    k0 \in {k \o [i \in 1..(64 - Len(k)) |-> 0] :
                            k \in {IF Len(key) > 64 THEN Sha256(key) ELSE key}}}} : TRUE

\* the S-box, the substitute of byte x at x + 1
AesSbox ==
    << 99, 124, 119, 123, 242, 107, 111, 197, 48, 1, 103, 43, 254, 215, 171, 118, 202,
       130, 201, 125, 250, 89, 71, 240, 173, 212, 162, 175, 156, 164, 114, 192, 183,
       253, 147, 38, 54, 63, 247, 204, 52, 165, 229, 241, 113, 216, 49, 21, 4, 199, 35,
       195, 24, 150, 5, 154, 7, 18, 128, 226, 235, 39, 178, 117, 9, 131, 44, 26, 27,
       110, 90, 160, 82, 59, 214, 179, 41, 227, 47, 132, 83, 209, 0, 237, 32, 252, 177,
       91, 106, 203, 190, 57, 74, 76, 88, 207, 208, 239, 170, 251, 67, 77, 51, 133, 69,
       249, 2, 127, 80, 60, 159, 168, 81, 163, 64, 143, 146, 157, 56, 245, 188, 182,
       218, 33, 16, 255, 243, 210, 205, 12, 19, 236, 95, 151, 68, 23, 196, 167, 126,
       61, 100, 93, 25, 115, 96, 129, 79, 220, 34, 42, 144, 136, 70, 238, 184, 20, 222,
       94, 11, 219, 224, 50, 58, 10, 73, 6, 36, 92, 194, 211, 172, 98, 145, 149, 228,
       121, 231, 200, 55, 109, 141, 213, 78, 169, 108, 86, 244, 234, 101, 122, 174, 8,
       186, 120, 37, 46, 28, 166, 180, 198, 232, 221, 116, 31, 75, 189, 139, 138, 112,
       62, 181, 102, 72, 3, 246, 14, 97, 53, 87, 185, 134, 193, 29, 158, 225, 248, 152,
       17, 105, 217, 142, 148, 155, 30, 135, 233, 206, 85, 40, 223, 140, 161, 137, 13,
       191, 230, 66, 104, 65, 153, 45, 15, 176, 84, 187, 22 >>

\* the inverse S-box
AesInvSbox == <<>> \o [j \in 1..256 |-> (CHOOSE b \in 1..256 : AesSbox[b] = j - 1) - 1]

\* m times b in GF(2^8) modulo x^8 + x^4 + x^3 + x + 1 for m < 16, at
\* m * 256 + b + 1
GfMul ==
    LET RECURSIVE Times(_, _)
        Times(a, m) ==
            IF m = 0 THEN 0
            ELSE Xor8[(IF m % 2 = 1 THEN a ELSE 0) * 256
                      + Times(IF a < 128 THEN 2 * a ELSE Xor8[(2 * a - 256) * 256 + 27 + 1],
                              m \div 2) + 1]
    IN  <<>> \o [j \in 1..4096 |-> Times((j - 1) % 256, (j - 1) \div 256)]

RECURSIVE AesKeyExpansion(_, _)
\* the 11 round keys of a 16-byte key, 176 bytes: w is what is expanded so
\* far, rcon the round constant of the next round key
AesKeyExpansion(w, rcon) ==
    IF Len(w) = 176 THEN w
    ELSE IF Len(w) % 16 = 0
        THEN AesKeyExpansion(
                 w \o XorBytes(SubSeq(w, Len(w) - 15, Len(w) - 12),
                               <<Xor8[AesSbox[w[Len(w) - 2] + 1] * 256 + rcon + 1],
                                 AesSbox[w[Len(w) - 1] + 1], AesSbox[w[Len(w)] + 1],
                                 AesSbox[w[Len(w) - 3] + 1]>>),
                 GfMul[2 * 256 + rcon + 1])
    ELSE AesKeyExpansion(w \o XorBytes(SubSeq(w, Len(w) - 15, Len(w) - 12),
                                       SubSeq(w, Len(w) - 3, Len(w))), rcon)

RECURSIVE AesRounds(_, _, _, _)
\* the state after rounds round .. 10 of the cipher (forward), or after
\* rounds round .. 0 of the inverse cipher.  A round substitutes the bytes,
\* shifts the rows, mixes the columns (not in round 10) and adds the round
\* key; a round of the inverse cipher undoes them in reverse order
AesRounds(s, rk, round, forward) ==
    LET Xor(a, b) == Xor8[a * 256 + b + 1] IN
    IF forward
    THEN IF round > 10 THEN s
         ELSE CHOOSE end \in
             {AesRounds(next, rk, round + 1, TRUE) :
              next \in
                 {<<>> \o [i \in 1..16 |->
                     Xor(rk[16 * round + i],
                         IF round = 10 THEN t[i]
                         ELSE Xor(Xor(GfMul[2 * 256 + t[i] + 1],
                                      GfMul[3 * 256 + t[4 * ((i - 1) \div 4) + (i % 4) + 1] + 1]),
                                  Xor(t[4 * ((i - 1) \div 4) + ((i + 1) % 4) + 1],
                                      t[4 * ((i - 1) \div 4) + ((i + 2) % 4) + 1])))] :
                  t \in {<<>> \o [i \in 1..16 |->
                            AesSbox[s[((i - 1) % 4) + 4 * ((((i - 1) \div 4) + ((i - 1) % 4)) % 4)
                                      + 1] + 1]]}}} : TRUE
    ELSE IF round < 0 THEN s
         ELSE CHOOSE end \in
             {AesRounds(next, rk, round - 1, FALSE) :
              next \in
                 {IF round = 0 THEN t
                  ELSE <<>> \o [i \in 1..16 |->
                           Xor(Xor(GfMul[14 * 256 + t[i] + 1],
                                   GfMul[11 * 256 + t[4 * ((i - 1) \div 4) + (i % 4) + 1] + 1]),
                               Xor(GfMul[13 * 256 + t[4 * ((i - 1) \div 4) + ((i + 1) % 4) + 1] + 1],
                                   GfMul[9 * 256 + t[4 * ((i - 1) \div 4) + ((i + 2) % 4) + 1] + 1]))] :
                  t \in {<<>> \o [i \in 1..16 |->
                            Xor(rk[16 * round + i],
                                AesInvSbox[s[((i - 1) % 4)
                                             + 4 * ((((i - 1) \div 4) + 4 - ((i - 1) % 4)) % 4)
                                             + 1] + 1])]}}} : TRUE

RECURSIVE AesCbcEncrypt(_, _, _, _)
\* Cipher(AES(key), CBC(iv)).encryptor() on whole blocks: rk is the expanded
\* key, prev the previous ciphertext block (the IV at first), i where the
\* next block of data starts
AesCbcEncrypt(rk, prev, data, i) ==
    IF i > Len(data) THEN <<>>
    ELSE CHOOSE out \in
        {block \o AesCbcEncrypt(rk, block, data, i + 16) :
         block \in {AesRounds(XorBytes(XorBytes(SubSeq(data, i, i + 15), prev),
                                       SubSeq(rk, 1, 16)), rk, 1, TRUE)}} : TRUE

RECURSIVE AesCbcDecrypt(_, _, _, _)
\* Cipher(AES(key), CBC(iv)).decryptor() on whole blocks
AesCbcDecrypt(rk, prev, data, i) ==
    IF i > Len(data) THEN <<>>
    ELSE CHOOSE out \in
        {XorBytes(block, prev) \o AesCbcDecrypt(rk, SubSeq(data, i, i + 15), data, i + 16) :
         block \in {AesRounds(XorBytes(SubSeq(data, i, i + 15), SubSeq(rk, 161, 176)),
                              rk, 9, FALSE)}} : TRUE

-----------------------------------------------------------------------------
(* Encryption helpers.  A Fernet token is the url-safe base64 text of       *)
(* version byte 0x80, an 8-byte timestamp, a 16-byte IV, the AES-128-CBC    *)
(* ciphertext of the PKCS7-padded plaintext and the HMAC-SHA256 tag of all  *)
(* that precedes it.  The first half of the 32-byte key signs, the second   *)
(* half encrypts.                                                           *)

\* what a call draws afresh: the low byte of the clock, which is also every
\* byte of the IV
IVs == {0, 1}

\* not passphrase
IsFalsy(pass) == pass = None \/ pass = Some(<<>>)

\* _get_fernet: the key is the digest of the passphrase
FernetKey(passphrase) == Sha256(Utf8(passphrase))

\* version, timestamp, IV and ciphertext: what the tag signs.  The
\* plaintext is PKCS7-padded to a multiple of 16 bytes
FernetSigned(key, iv, plain) ==
    CHOOSE signed \in
        {<<128>> \o Repeat(0, 7) \o <<iv>> \o Repeat(iv, 16)
                 \o AesCbcEncrypt(rk, Repeat(iv, 16), padded, 1) :
         padded \in {plain \o Repeat(16 - (Len(plain) % 16), 16 - (Len(plain) % 16))},
         rk \in {AesKeyExpansion(SubSeq(key, 17, 32), 1)}} : TRUE

\* Fernet(key).encrypt(plain).decode("utf-8")
FernetEncrypt(key, iv, plain) ==
    CHOOSE token \in {B64Encode(signed \o HmacSha256(SubSeq(key, 1, 16), signed)) :
                      signed \in {FernetSigned(key, iv, plain)}} : TRUE

InvalidToken == [ok |-> FALSE, val |-> <<>>]

\* the plaintext of padded bytes: InvalidToken when the padding is not PKCS7
Pkcs7Unpad(padded) ==
    IF padded = <<>> \/ padded[Len(padded)] \notin 1..16 \/ padded[Len(padded)] > Len(padded)
        THEN InvalidToken
    ELSE IF \E k \in (Len(padded) - padded[Len(padded)] + 1)..Len(padded) :
                padded[k] # padded[Len(padded)]
        THEN InvalidToken
    ELSE [ok |-> TRUE, val |-> SubSeq(padded, 1, Len(padded) - padded[Len(padded)])]

\* the plaintext of the decoded bytes of a token: the version byte and the
\* length, then the tag over all but the last 32 bytes, then the ciphertext
\* data[25:-32] under the IV data[9:25]
FernetVerify(key, data) ==
    IF data = <<>> \/ data[1] # 128 \/ Len(data) < 9 THEN InvalidToken
    ELSE IF Len(data) < 32 THEN InvalidToken
    ELSE IF \E tag \in {HmacSha256(SubSeq(key, 1, 16), SubSeq(data, 1, Len(data) - 32))} :
                tag # SubSeq(data, Len(data) - 31, Len(data))
        THEN InvalidToken
    ELSE IF Len(data) < 57 \/ (Len(data) - 57) % 16 # 0 THEN InvalidToken
    ELSE CHOOSE plain \in
        {Pkcs7Unpad(AesCbcDecrypt(rk, SubSeq(data, 10, 25),
                                  SubSeq(data, 26, Len(data) - 32), 1)) :
         rk \in {AesKeyExpansion(SubSeq(key, 17, 32), 1)}} : TRUE

\* Fernet(key).decrypt(token): ok is FALSE when it raises InvalidToken
FernetDecrypt(key, token) ==
    CHOOSE plain \in {IF ~decoded.ok THEN InvalidToken
                      ELSE FernetVerify(key, decoded.val) :
                      decoded \in {B64Decode(token)}} : TRUE

\* the tokens of the envelopes of the texts of the runs, under the
\* passphrase and the IVs of the runs
Encrypted ==
    {<<<<wrapped, passphrase, iv>>, FernetEncrypt(key, iv, Utf8(wrapped))>> :
     wrapped \in {wrap_payload_with_checksum(s) : s \in Texts \cup FormTexts},
     passphrase \in {Str(<<"p">>)}, key \in {FernetKey(Str(<<"p">>))}, iv \in IVs}

\* maybe_encrypt of a text and passphrase that encode("utf-8") accepts
maybe_encrypt(text, passphrase, iv) ==
    IF IsFalsy(passphrase) THEN text
    ELSE Lookup(Encrypted, <<text, passphrase[1], iv>>,
                FernetEncrypt(FernetKey(passphrase[1]), iv, Utf8(text)))

\* plain_bytes.decode("utf-8") of what decrypt returned
DecryptedText(plain) ==
    IF ~plain.ok THEN [plain |-> None, err |-> Some(DecryptionError)]
    ELSE IF ~Utf8Decode(plain.val).ok THEN [plain |-> None, err |-> Some(Raised("UnicodeDecodeError"))]
    ELSE [plain |-> Some(Utf8Decode(plain.val).val), err |-> None]

\* what the tokens made under the IV 1 decrypt to, under the passphrase
\* that made them and under another
Decrypted ==
    {<<<<token, passphrase>>, DecryptedText(FernetDecrypt(FernetKey(passphrase), Utf8(token)))>> :
     token \in {e[2] : e \in {made \in Encrypted : made[1][3] = 1}},
     passphrase \in {Str(<<"p">>), Str(<<"q">>)}}

\* a decryption that hands back its input when the token does not verify
maybe_decrypt_Lenient(text, passphrase) ==
    IF IsFalsy(passphrase) THEN [plain |-> Some(text), err |-> None]
    ELSE IF ~IsEncodable(passphrase[1]) \/ ~IsEncodable(text)
        THEN [plain |-> None, err |-> Some(EncodeError)]
    ELSE CHOOSE d \in
        {IF out.err = Some(DecryptionError) THEN [plain |-> Some(text), err |-> None] ELSE out :
         out \in {Lookup(Decrypted, <<text, passphrase[1]>>,
                         DecryptedText(FernetDecrypt(FernetKey(passphrase[1]), Utf8(text))))}} :
        TRUE

\* returns (plaintext, error)
maybe_decrypt(text, passphrase) ==
    IF IsFalsy(passphrase) THEN [plain |-> Some(text), err |-> None]
    ELSE IF ~IsEncodable(passphrase[1]) \/ ~IsEncodable(text)
        THEN [plain |-> None, err |-> Some(EncodeError)]
    ELSE Lookup(Decrypted, <<text, passphrase[1]>>,
                DecryptedText(FernetDecrypt(FernetKey(passphrase[1]), Utf8(text))))


-----------------------------------------------------------------------------
(* Chunker and frames *)

\* a chunker that drops a last slice shorter than size
Slices_DropPartial(text, size) ==
    [k \in 1..(Len(text) \div size) |-> SubSeq(text, (k - 1) * size + 1, k * size)]

\* [text[i:i+size] for i in range(0, len(text), size)]
Slices(text, size) ==
    [k \in 1..((Len(text) + size - 1) \div size) |->
        SubSeq(text, (k - 1) * size + 1,
               IF k * size <= Len(text) THEN k * size ELSE Len(text))]

\* raises ValueError when size <= 0: ok is FALSE
chunk_text(text, size) ==
    IF size <= 0 THEN [ok |-> FALSE, chunks |-> <<>>]
    ELSE [ok |-> TRUE, chunks |-> Slices(text, size)]

\* str(n)
IntToStr(n) ==
    LET RECURSIVE Digits(_)
        Digits(k) ==
            IF k < 10 THEN <<C("0") + k>>
            ELSE Append(Digits(k \div 10), C("0") + (k % 10))
    IN  IF n < 0 THEN <<C("-")>> \o Digits(-n) ELSE Digits(n)

\* f"{msg_id}|{idx}|{total}|{chunk}", idx 0-based
FrameString(msg_id, idx, total, chunk) ==
    msg_id \o <<C("|")>> \o IntToStr(idx) \o <<C("|")>> \o IntToStr(total)
           \o <<C("|")>> \o chunk

\* uuid.uuid4().hex[:8]: the ids the encode calls draw
MsgIds == << Str(<<"a","1","a","1","a","1","a","1">>),
             Str(<<"b","2","b","2","b","2","b","2">>) >>

\* what an encode call failed with
EncodeFailed(e) == [ok |-> FALSE, err |-> Some(e), frames |-> <<>>]

\* the strings of the symbols _build_big_qr_image tiles, in tile order;
\* chunk_text may have raised, and tile_images raises for want of an image
BuildFrames(p, chunk_size, msg_id) ==
    CHOOSE built \in
        {IF ~split.ok THEN EncodeFailed(ChunkSizeError)
         ELSE IF split.chunks = <<>> THEN EncodeFailed(Raised("No images to tile"))
         ELSE [ok |-> TRUE, err |-> None,
               frames |-> [k \in 1..Len(split.chunks) |->
                              FrameString(msg_id, k - 1, Len(split.chunks),
                                          split.chunks[k])]] :
         split \in {chunk_text(p, chunk_size)}} : TRUE

\* whether wrap_payload_with_checksum and maybe_encrypt raise no
\* UnicodeEncodeError
Encodable(text, passphrase) ==
    IsEncodable(text) /\ (IsFalsy(passphrase) \/ IsEncodable(passphrase[1]))

\* encode_text_to_big_qr_file / encode_text_to_big_qr
EncodeFrames(text, chunk_size, passphrase, msg_id, iv) ==
    IF ~Encodable(text, passphrase) THEN EncodeFailed(EncodeError)
    ELSE BuildFrames(maybe_encrypt(wrap_payload_with_checksum(text), passphrase, iv),
                     chunk_size, msg_id)

-----------------------------------------------------------------------------
(* Frame parsing and reassembly *)

\* s.split(sep, maxsplit), sep one character
Split(s, sep, maxsplit) ==
    LET \* the first position >= from of sep in s, 0 when there is none
        IndexOf(from) ==
            IF \E k \in from..Len(s) : s[k] = sep
            THEN CHOOSE k \in from..Len(s) : s[k] = sep /\ \A j \in from..(k - 1) : s[j] # sep
            ELSE 0
        RECURSIVE SplitFrom(_, _, _)
        \* the pieces of s from position from on, the next sep at position at
        SplitFrom(from, left, at) ==
            IF left = 0 \/ at = 0 THEN <<SubSeq(s, from, Len(s))>>
            ELSE <<SubSeq(s, from, at - 1)>> \o SplitFrom(at + 1, left - 1, IndexOf(at + 1))
    IN  SplitFrom(1, maxsplit, IndexOf(1))

RECURSIVE StripOf(_, _)
\* s without the characters of blanks at its ends
StripOf(s, blanks) ==
    IF s # <<>> /\ Head(s) \in blanks THEN StripOf(Tail(s), blanks)
    ELSE IF s # <<>> /\ s[Len(s)] \in blanks THEN StripOf(SubSeq(s, 1, Len(s) - 1), blanks)
    ELSE s

\* s.strip()
Strip(s) == StripOf(s, PyWhitespace)

\* int(s): surrounding blanks (U+001C .. U+001F are none to int()), an
\* optional sign, and decimal digits of any script with single underscores
\* between them, at most MaxStrDigits digits; ok is FALSE when it raises
ParseInt(s) ==
    LET RECURSIVE Value(_, _, _)
        \* the number the digits lo .. hi of d spell
        Value(d, lo, hi) ==
            IF lo = hi
                THEN d[lo] - CHOOSE z \in DecimalZeros : d[lo] \in z..(z + 9)
            ELSE CHOOSE n \in
                {IF high = 0 THEN low ELSE high * 10^(hi - (lo + hi) \div 2) + low :
                 high \in {Value(d, lo, (lo + hi) \div 2)},
                 low \in {Value(d, (lo + hi) \div 2 + 1, hi)}} : TRUE
        t == StripOf(s, PyWhitespace \ (28..31))
        body == IF t # <<>> /\ Head(t) \in {C("-"), C("+")} THEN Tail(t) ELSE t
        digits == SelectSeq(body, IsDecimal)
    IN  IF body = <<>>
           \/ \E i \in 1..Len(body) :
                  /\ ~IsDecimal(body[i])
                  /\ ~(/\ body[i] = C("_") /\ i > 1 /\ i < Len(body)
                       /\ IsDecimal(body[i - 1]) /\ IsDecimal(body[i + 1]))
            THEN [ok |-> FALSE, val |-> 0]
        ELSE IF Len(digits) > MaxStrDigits THEN [ok |-> FALSE, val |-> 0]
        ELSE [ok |-> TRUE,
              val |-> IF Head(t) = C("-") THEN -Value(digits, 1, Len(digits))
                      ELSE Value(digits, 1, Len(digits))]

NoFrame == [ok |-> FALSE, msg_id |-> <<>>, idx |-> 0, total |-> 0, chunk |-> <<>>]

\* the frame of the fields of a symbol: four fields, whose index and total
\* int() converts
FrameOfParts(parts) ==
    IF Len(parts) # 4 THEN NoFrame
    ELSE CHOOSE f \in
        {IF ~n[1].ok \/ ~n[2].ok THEN NoFrame
         ELSE [ok |-> TRUE, msg_id |-> parts[1], idx |-> n[1].val, total |-> n[2].val,
               chunk |-> parts[4]] :
         n \in {<<ParseInt(parts[2]), ParseInt(parts[3])>>}} : TRUE

\* a loop body that splits a symbol at every separator
ParseFrame_SplitAll(content) == FrameOfParts(Split(content, C("|"), -1))

\* one pass of the loop body over a symbol: the frame it yields, ok FALSE
\* when the body hits `continue` (wrong field count, or int() raised)
ParseFrame(content) == FrameOfParts(Split(content, C("|"), 3))

\* the position of msg_id among the messages, 0 when it is not there
MessageAt(messages, msg_id) ==
    IF \E k \in 1..Len(messages) : messages[k].msg_id = msg_id
    THEN CHOOSE k \in 1..Len(messages) : messages[k].msg_id = msg_id
    ELSE 0

\* a store that adds a repeated index's chunk to the one it holds
PutFrame_Concat(messages, f, at) ==
    IF at = 0
    THEN Append(messages, [msg_id |-> f.msg_id, total |-> f.total,
                           parts |-> (f.idx :> f.chunk)])
    ELSE [messages EXCEPT ![at].parts =
             [i \in DOMAIN messages[at].parts \cup {f.idx} |->
                 IF i # f.idx THEN messages[at].parts[i]
                 ELSE IF i \in DOMAIN messages[at].parts
                     THEN messages[at].parts[i] \o f.chunk
                 ELSE f.chunk]]

\* messages[msg_id]["parts"][idx] = chunk, the entry being made when the id
\* is new (at = 0) with the total of this first frame
PutFrame(messages, f, at) ==
    IF at = 0
    THEN Append(messages, [msg_id |-> f.msg_id, total |-> f.total,
                           parts |-> (f.idx :> f.chunk)])
    ELSE [messages EXCEPT ![at].parts =
             [i \in DOMAIN messages[at].parts \cup {f.idx} |->
                 IF i = f.idx THEN f.chunk ELSE messages[at].parts[i]]]

\* messages after one symbol, which is skipped when it yields no frame: a
\* dict in insertion order, each entry holding the total of the first frame
\* of its id and the chunk last seen per index
AddSymbol(messages, content) ==
    CHOOSE after \in
        {IF ~f.ok THEN messages ELSE PutFrame(messages, f, MessageAt(messages, f.msg_id)) :
         f \in {ParseFrame(content)}} : TRUE

RECURSIVE CollectMessages(_, _)
CollectMessages(symbols, messages) ==
    IF symbols = <<>> THEN messages
    ELSE CollectMessages(Tail(symbols), AddSymbol(messages, Head(symbols)))

RECURSIVE MissingFrom_FirstOnly(_, _, _)
\* a completeness check that stops at the first index it misses
MissingFrom_FirstOnly(parts, from, total) ==
    IF from >= total THEN <<>>
    ELSE IF from \in DOMAIN parts THEN MissingFrom_FirstOnly(parts, from + 1, total)
    ELSE <<from>>

RECURSIVE MissingFrom(_, _, _)
\* [i for i in range(from, total) if i not in parts]
MissingFrom(parts, from, total) ==
    IF from >= total THEN <<>>
    ELSE (IF from \in DOMAIN parts THEN <<>> ELSE <<from>>)
         \o MissingFrom(parts, from + 1, total)

\* a selection of the message id met last
SelectMessage_Last(messages) == messages[Len(messages)]

\* the message reassembly works on: next(iter(messages.items()))
SelectMessage(messages) == messages[1]

\* the completeness check and join of one message: its payload, or the
\* error naming what is missing
Reassemble(data) ==
    CHOOSE r \in
        {IF missing # <<>>
             THEN [payload |-> None, err |-> Some(MissingChunksError(missing))]
         ELSE [payload |-> Some(Concat([k \in 1..data.total |-> data.parts[k - 1]])),
               err |-> None] :
         missing \in {MissingFrom(data.parts, 0, data.total)}} : TRUE

\* _decode_big_image on what the scanner returned: (payload, error)
decode_big_image(symbols) ==
    IF symbols = <<>> THEN [payload |-> None, err |-> Some(NoCodesError)]
    ELSE CHOOSE r \in
        {IF messages = <<>> THEN [payload |-> None, err |-> Some(FormatError)]
         ELSE Reassemble(SelectMessage(messages)) :
         messages \in {CollectMessages(symbols, <<>>)}} : TRUE

\* the locals of decode_big_qr_to_text before their assignment
NoReasm == [payload |-> None, err |-> None]
NoDecrypted == [plain |-> None, err |-> None]

\* payload, err = _decode_big_image(img), when the upload opens as an image
DecodeScan(opens, symbols) == IF opens THEN decode_big_image(symbols) ELSE NoReasm

\* wrapped, dec_err = maybe_decrypt(payload, passphrase), when it is reached
DecodeDecrypt(opens, r, passphrase) ==
    IF opens /\ r.err = None THEN maybe_decrypt(r.payload[1], passphrase) ELSE NoDecrypted

\* the return of decode_big_qr_to_text after unwrap_and_verify_payload gave u
UnwrapOutcome(u) ==
    IF u.err # None THEN Result(None, u.sha, u.err) ELSE Result(u.text, u.sha, None)

\* a decode that returns the undecrypted payload beside a decryption error
decode_big_qr_to_text_KeepPayload(opens, r, d, frames) ==
    IF ~opens THEN Result(None, None, Some(ImageError))
    ELSE IF r.err # None THEN Result(None, None, r.err)
    ELSE IF d.err # None THEN Result(r.payload, None, d.err)
    ELSE CHOOSE res \in {UnwrapOutcome(u) :
                          u \in {unwrap_and_verify_payload(d.plain[1], frames + 1)}} : TRUE

\* what decode_big_qr_to_text returns, (text, sha256_hex, error), or raises,
\* given its locals r = (payload, err) and d = (wrapped, dec_err) and the
\* Python frames in use where it is called
decode_big_qr_to_text(opens, r, d, frames) ==
    IF ~opens THEN Result(None, None, Some(ImageError))
    ELSE IF r.err # None THEN Result(None, None, r.err)
    ELSE IF d.err # None THEN Result(None, None, d.err)
    ELSE CHOOSE res \in {UnwrapOutcome(u) :
                          u \in {unwrap_and_verify_payload(d.plain[1], frames + 1)}} : TRUE

-----------------------------------------------------------------------------
(* HTTP handlers: what the caller gets back *)

\* the response of an encode handler that returns no image
EncodeFailure(status, e) == [ok |-> FALSE, status |-> status, err |-> Some(e), frames |-> <<>>]

\* what `x or None` evaluates to for an optional string x
OrNone(x) == IF IsFalsy(x) THEN None ELSE x

\* the default of the handlers for a chunk_size the request does not give
DefaultChunkSize == 500

\* the response of a handler whose encode call gave enc: an exception is
\* caught and reported under the status and prefix of the handler
EncodeResponse(enc, status, prefix) ==
    IF ~enc.ok THEN EncodeFailure(status, Caught(prefix, enc.err[1]))
    ELSE [ok |-> TRUE, status |-> 200, err |-> None, frames |-> enc.frames]

\* A value of a JSON body.  kind is "null", "bool", "int", "float", "str",
\* "list", "dict" or "object", and "absent" for a key an object does not
\* hold; val is a tuple: empty for null, <<1>> for true and <<0>> for
\* false, <<n>> for the integer n, <<n, d>> for the float n / d (d is 0 for
\* NaN, <<0, 0>>, and the infinities), the characters of a string, the
\* number of members of a list or of a dict that is the value of a key, and,
\* of the object that is the body, the values of its keys data, chunk_size
\* and passphrase.
Json(kind, val) == [kind |-> kind, val |-> val]

\* bool(v), an absent value being the None that get() returns for it
Truthy(v) ==
    CASE v.kind \in {"absent", "null"} -> FALSE
      [] v.kind \in {"bool", "int"} -> v.val[1] # 0
      [] v.kind = "float" -> v.val[1] # 0 \/ v.val[2] = 0
      [] v.kind = "str" -> v.val # <<>>
      [] v.kind = "object" -> TRUE
      [] OTHER -> v.val[1] > 0

\* request.get_json(silent=True) or {}: the values of the keys the handler
\* reads, all absent for a body that is no JSON or a falsy value
ApiPayload(body) ==
    IF body.kind = "object"
        THEN [data |-> body.val[1], chunk_size |-> body.val[2], passphrase |-> body.val[3]]
    ELSE [data |-> Absent, chunk_size |-> Absent, passphrase |-> Absent]

\* int(payload.get("chunk_size", 500)): ok is FALSE when int() raises err.
\* A float is cut towards zero, a string is parsed, True is 1
ApiChunkSize(chunk_size) ==
    CASE chunk_size.kind = "absent" -> [ok |-> TRUE, val |-> DefaultChunkSize, err |-> ""]
      [] chunk_size.kind \in {"int", "bool"} ->
            [ok |-> TRUE, val |-> chunk_size.val[1], err |-> ""]
      [] chunk_size.kind = "float" ->
            IF chunk_size.val[2] = 0
                THEN [ok |-> FALSE, val |-> 0,
                      err |-> IF chunk_size.val[1] = 0 THEN "ValueError" ELSE "OverflowError"]
            ELSE [ok |-> TRUE,
                  val |-> IF chunk_size.val[1] >= 0 THEN chunk_size.val[1] \div chunk_size.val[2]
                          ELSE -((-chunk_size.val[1]) \div chunk_size.val[2]),
                  err |-> ""]
      [] chunk_size.kind = "str" ->
            IF ParseInt(chunk_size.val).ok
                THEN [ok |-> TRUE, val |-> ParseInt(chunk_size.val).val, err |-> ""]
            ELSE [ok |-> FALSE, val |-> 0, err |-> "ValueError"]
      [] OTHER -> [ok |-> FALSE, val |-> 0, err |-> "TypeError"]

\* payload.get("data"): the characters of a string, nothing for None, and a
\* value of another type as it is
ApiEncodeData(data) ==
    IF data.kind = "str" THEN data.val
    ELSE IF data.kind \in {"absent", "null"} THEN <<>>
    ELSE data

\* payload.get("passphrase") or None: a falsy value gives None, a string is
\* kept as its characters, and a truthy value of another type as it is
ApiEncodePassphrase(passphrase) ==
    IF ~Truthy(passphrase) THEN None
    ELSE IF passphrase.kind = "str" THEN Some(passphrase.val)
    ELSE Some(passphrase)

\* encode_text_to_big_qr_file(data, chunk_size, passphrase) inside the try
\* of the handler: a value that is no string has no encode()
ApiEncode(data, chunk_size, passphrase, msg_id, iv) ==
    IF data.kind # "str" THEN EncodeFailed(Raised("AttributeError"))
    ELSE IF ~IsEncodable(data.val) THEN EncodeFailed(EncodeError)
    ELSE IF Truthy(passphrase) /\ passphrase.kind # "str"
        THEN EncodeFailed(Raised("AttributeError"))
    ELSE EncodeFrames(data.val, chunk_size, ApiEncodePassphrase(passphrase), msg_id, iv)

\* POST /api/encode with a body whose JSON value is body.  get() of a value
\* that is no object and int() of the chunk_size raise before the check of
\* data, where no handler catches them
encode_api(body, msg_id, iv) ==
    IF body.kind # "object" /\ Truthy(body) THEN EncodeFailure(500, Raised("AttributeError"))
    ELSE IF ~ApiChunkSize(ApiPayload(body).chunk_size).ok
        THEN EncodeFailure(500, Raised(ApiChunkSize(ApiPayload(body).chunk_size).err))
    ELSE IF ~Truthy(ApiPayload(body).data)
        THEN EncodeFailure(400, Error("Provide 'data' in JSON body."))
    ELSE EncodeResponse(ApiEncode(ApiPayload(body).data,
                                  ApiChunkSize(ApiPayload(body).chunk_size).val,
                                  ApiPayload(body).passphrase, msg_id, iv),
                        400, "")

\* request.form.get("passphrase", "").strip() or None
FormPassphrase(passphrase) ==
    IF passphrase = None THEN None ELSE OrNone(Some(Strip(passphrase[1])))

\* int(request.form.get("chunk_size", "500") or "500")
FormChunkSize(chunk_size) ==
    IF IsFalsy(chunk_size) THEN [ok |-> TRUE, val |-> DefaultChunkSize]
    ELSE ParseInt(chunk_size[1])

\* POST /app with mode=encode and form fields data, chunk_size and
\* passphrase; the ValueError of int() is caught by no handler
app_view_encode(text, chunk_size, passphrase, msg_id, iv) ==
    CHOOSE response \in
        {IF ~size.ok
             THEN EncodeFailure(500, Raised("ValueError"))
         ELSE IF Strip(text) = <<>>
             THEN EncodeFailure(200, Error("Please provide some text to encode."))
         ELSE EncodeResponse(EncodeFrames(text, size.val, FormPassphrase(passphrase),
                                          msg_id, iv),
                             200, "Failed to encode: ") :
         size \in {FormChunkSize(chunk_size)}} : TRUE

\* request.form.get("passphrase") or request.args.get("passphrase"), and
\* its strip() when it is not empty
ApiPassphrase(form, args) ==
    CHOOSE stripped \in {IF IsFalsy(passphrase) THEN passphrase
                         ELSE Some(Strip(passphrase[1])) :
                         passphrase \in {IF IsFalsy(form) THEN args ELSE form}} : TRUE

\* POST /api/decode: the status and the (data, sha256, error) of the body,
\* given the locals r and d of the decode call it makes, whose exception
\* is not caught, and the Python frames in use where the server calls it
decode_api(present, opens, r, d, frames) ==
    IF ~present
        THEN [status |-> 400,
              result |-> Result(None, None, Some(Error("No file uploaded (key 'file')")))]
    ELSE CHOOSE response \in
        {IF res.err = None THEN [status |-> 200, result |-> res]
         ELSE IF res.err[1].raised THEN [status |-> 500, result |-> res]
         ELSE [status |-> 400, result |-> Result(None, res.sha, res.err)] :
         res \in {decode_big_qr_to_text(opens, r, d, frames + 1)}} : TRUE

\* POST /app with mode=decode: (decoded_text, decoded_hash, decode_error),
\* an exception of the decode call being caught and shown as a message
app_view_decode(present, opens, r, d, frames) ==
    IF ~present THEN Result(None, None, Some(Error("Please upload a QR image.")))
    ELSE CHOOSE shown \in
        {IF res.err # None /\ res.err[1].raised
         THEN Result(None, None, Some(Caught("Failed to decode: ", res.err[1])))
         ELSE res :
         res \in {decode_big_qr_to_text(opens, r, d, frames + 1)}} : TRUE

-----------------------------------------------------------------------------
(* Inputs *)

\* the passphrases of a decode call
Passphrases == {None, Some(<<>>), Some(<<C("p")>>), Some(<<C("q")>>)}

\* the passphrases of an encode call
EncodePassphrases == {None, Some(<<>>), Some(<<C("p")>>)}

\* chunk sizes of the round-trip runs: non-positive ones, and sizes that cut
\* the payloads into one to four frames
ChunkSizes == {-1, 0, 70, 120}

\* the Python frames in use where a run calls into the program: the one of
\* a script, or the dozens of a server and its middleware
CallerFrames == {1, 40}

\* the IVs drawn for a passphrase: none is drawn when nothing is encrypted
IVsFor(passphrase) == IF IsFalsy(passphrase) THEN {0} ELSE IVs

\* the image an encode call returns: None when it raised
ImageOf(enc) == IF enc.ok THEN Some(enc.frames) ELSE None

\* nothing encoded, uploaded, scanned or decoded yet
Blank ==
    /\ in_text = <<>> /\ in_chunk = None /\ in_pass = None /\ payload = <<>>
    /\ image = None /\ enc_err = None /\ http_status = 0 /\ scanned = <<>>
    /\ dec_pass = None /\ reasm = NoReasm /\ decrypted = NoDecrypted
    /\ result = Result(None, None, None)

-----------------------------------------------------------------------------
(* Spec: one encode call, the scan of its image, one decode call *)

Init == op = "start" /\ readable = TRUE /\ Blank

\* what encode hands to the chunker, nothing when it did not come that far
EncodePayload(rejected, text, passphrase, iv) ==
    IF rejected \/ ~Encodable(text, passphrase) THEN <<>>
    ELSE maybe_encrypt(wrap_payload_with_checksum(text), passphrase, iv)

\* encode_text_to_big_qr_file(text, chunk_size, passphrase)
Encode(text, chunk_size, passphrase, msg_id, iv) ==
    /\ op = "start"
    /\ op' = "encoded"
    /\ in_text' = text /\ in_chunk' = Some(chunk_size) /\ in_pass' = passphrase
    /\ payload' = EncodePayload(FALSE, text, passphrase, iv)
    /\ \E enc \in {EncodeFrames(text, chunk_size, passphrase, msg_id, iv)} :
           image' = ImageOf(enc) /\ enc_err' = enc.err
    /\ UNCHANGED <<http_status, readable, scanned, dec_pass, reasm, decrypted, result>>

\* the scanner reports one more symbol of the image: any symbol, seen or not
ScanSymbol(k) ==
    /\ op \in {"encoded", "scanning"}
    /\ image # None
    /\ k \in 1..Len(image[1])
    /\ Len(scanned) < MaxScanned
    /\ scanned' = Append(scanned, image[1][k])
    /\ op' = "scanning"
    /\ UNCHANGED <<in_text, in_chunk, in_pass, payload, image, enc_err, http_status,
                   readable, dec_pass, reasm, decrypted, result>>

\* decode_big_qr_to_text(file_stream, passphrase) on what the scanner reported
Decode(passphrase, frames) ==
    /\ op \in {"encoded", "scanning", "uploaded"}
    /\ enc_err = None
    /\ dec_pass' = passphrase
    /\ reasm' = DecodeScan(readable, scanned)
    /\ decrypted' = DecodeDecrypt(readable, reasm', passphrase)
    /\ result' = decode_big_qr_to_text(readable, reasm', decrypted', frames)
    /\ op' = "decoded"
    /\ UNCHANGED <<in_text, in_chunk, in_pass, payload, image, enc_err, http_status,
                   readable, scanned>>

\* every run draws the same id and IV (SpecEncode draws every id and IV)
Next ==
    \/ /\ op = "start"
       /\ \E text \in Texts, chunk_size \in ChunkSizes,
             passphrase \in EncodePassphrases,
             msg_id \in {MsgIds[1]}, iv \in {1} :
             Encode(text, chunk_size, passphrase, msg_id, iv)
    \/ /\ image # None
       /\ \E k \in 1..Len(image[1]) : ScanSymbol(k)
    \/ /\ op \in {"encoded", "scanning"}
       /\ \E passphrase \in Passphrases, frames \in CallerFrames : Decode(passphrase, frames)

Spec == Init /\ [][Next]_vars

\* the scanner reported every symbol of the encoded image at least once
ScanComplete ==
    /\ image # None
    /\ \A k \in 1..Len(image[1]) : \E j \in 1..Len(scanned) : scanned[j] = image[1][k]

\* C1: decoding the image that encode produced, with the passphrase it was
\* encoded with, returns the text, its SHA-256 and no error, whatever order
\* (and however often) the scanner reports the symbols in.
C1_RoundTrip ==
    (op = "decoded" /\ ScanComplete /\ in_text # <<>> /\ dec_pass = in_pass)
        => result = Result(Some(in_text), Some(Sha256Hex(in_text)), None)

\* a text with the frame separator, cut into several frames that the scanner
\* reported out of tile order, came back
C1_Witness ==
    /\ op = "decoded" /\ ScanComplete /\ dec_pass = in_pass
    /\ \E i \in 1..Len(in_text) : in_text[i] = C("|")
    /\ Len(image[1]) >= 2
    /\ scanned[1] # image[1][1]
    /\ result.text = Some(in_text)

\* C2 as claimed: decoding with any passphrase other than the one of the
\* encoding, an absent or empty one included, returns DecryptionError and no text.
C2_WrongPassphraseClaimed ==
    (op = "decoded" /\ ScanComplete /\ dec_pass # in_pass)
        => (result.err = Some(DecryptionError) /\ result.text = None)

\* C2 as amended: a non-empty passphrase other than the one of the encoding
\* returns DecryptionError, no text and no hash.  An absent or empty passphrase
\* skips decryption: an image encoded under a non-empty passphrase then decodes
\* to its ciphertext as text, with no hash and no error, and an image encoded
\* under an absent or empty passphrase decodes to its text.
C2_WrongPassphrase ==
    (op = "decoded" /\ ScanComplete /\ dec_pass # in_pass)
        => IF ~IsFalsy(dec_pass) THEN result = Result(None, None, Some(DecryptionError))
           ELSE IF ~IsFalsy(in_pass) THEN result = Result(Some(payload), None, None)
           ELSE result = Result(Some(in_text), Some(Sha256Hex(in_text)), None)

\* an image encoded under "p" was decoded under "q" and the decryption failed
C2_Witness ==
    /\ op = "decoded" /\ ScanComplete
    /\ in_pass = Some(<<C("p")>>) /\ dec_pass = Some(<<C("q")>>)
    /\ result.err = Some(DecryptionError)

\* C9: when the scanner reports every frame of the message, in any order and
\* any frame any number of times, reassembly returns the payload and no error.
C9_OrderAndDuplicates ==
    (op = "decoded" /\ ScanComplete) => reasm = [payload |-> Some(payload), err |-> None]

\* three frames were reported out of tile order, one of them twice
C9_Witness ==
    /\ op = "decoded" /\ ScanComplete
    /\ Len(image[1]) >= 3
    /\ Len(scanned) > Len(image[1])
    /\ scanned[1] # image[1][1]
    /\ reasm.payload = Some(payload)

\* C6 as claimed: an encode call whose text is empty, or whose chunk_size is
\* zero or negative, fails with an error and returns no image.
C6_EncodeValidationClaimed ==
    (op # "start" /\ (in_text = <<>> \/ in_chunk[1] <= 0))
        => (image = None /\ enc_err # None)
-----------------------------------------------------------------------------
(* SpecScan: an uploaded picture whose symbols are any strings of a pool,   *)
(* and one decode call or one request to a decode handler                   *)

\* the three frames of a message whose text holds the frame separator
PoolMessage == EncodeFrames(Str(<<"a", "|">>), 30, None, MsgIds[1], 0).frames

\* the single frame of another message: an envelope whose hash is not its text's
PoolTampered ==
    FrameString(MsgIds[2], 0, 1, JsonDumps(Sha256Hex(Str(<<"a">>)), Str(<<"|">>)))

\* what the scanner may report: the frames of the two messages; the single
\* frame of another message, encrypted under "p"; the single frame of a
\* message whose envelope escapes half a surrogate pair as its text,
\* {"hash": "", "text": "\ud800"}; and strings that are no frame of the
\* encoder: no separator, a non-numeric index, a negative index, a negative
\* total, and a frame of the first message's id with another total and chunk
SymbolPool ==
    {PoolMessage[k] : k \in 1..Len(PoolMessage)}
        \cup { PoolTampered,
               EncodeFrames(Str(<<"a">>), DefaultChunkSize, Some(Str(<<"p">>)),
                            MsgIds[2], 1).frames[1],
               FrameString(Str(<<"c","3">>), 0, 1,
                           Str(<<"{","\"","h","a","s","h","\"",":"," ","\"","\"",","," ",
                                 "\"","t","e","x","t","\"",":"," ","\"","\\","u","d","8",
                                 "0","0","\"","}">>)),
               Str(<<"j","u","n","k">>),
               MsgIds[1] \o Str(<<"|","x","|","3","|","q">>),
               MsgIds[1] \o Str(<<"|","-","1","|","3","|","n">>),
               MsgIds[2] \o Str(<<"|","0","|","-","1","|","n">>),
               MsgIds[1] \o Str(<<"|","1","|","2","|","z","z">>) }

\* the passphrases of a form or query: absent, empty, and one with a blank
\* before it
HandlerPassphrases == {None, Some(<<>>), Some(Str(<<" ", "p">>))}

InitScan == op = "uploaded" /\ readable \in BOOLEAN /\ Blank

\* the scanner reports one more symbol of the uploaded picture
ScanStray(symbol) ==
    /\ op = "uploaded"
    /\ readable
    /\ Len(scanned) < MaxStray
    /\ scanned' = Append(scanned, symbol)
    /\ UNCHANGED <<op, in_text, in_chunk, in_pass, payload, image, enc_err, http_status,
                   readable, dec_pass, reasm, decrypted, result>>

\* POST /api/decode, with or without a file under the key "file"; without
\* one the handler makes no decode call
DecodeApi(present, form, args, frames) ==
    /\ op = "uploaded"
    /\ op' = "api_decoded"
    /\ dec_pass' = (IF present THEN ApiPassphrase(form, args) ELSE None)
    /\ reasm' = (IF present THEN DecodeScan(readable, scanned) ELSE NoReasm)
    /\ decrypted' = (IF present THEN DecodeDecrypt(readable, reasm', dec_pass')
                     ELSE NoDecrypted)
    /\ \E response \in {decode_api(present, readable, reasm', decrypted', frames)} :
           result' = response.result /\ http_status' = response.status
    /\ UNCHANGED <<in_text, in_chunk, in_pass, payload, image, enc_err, readable, scanned>>

\* POST /app with mode=decode, with or without a file
AppViewDecode(present, passphrase, frames) ==
    /\ op = "uploaded"
    /\ op' = "web_decoded"
    /\ dec_pass' = FormPassphrase(passphrase)
    /\ reasm' = (IF present THEN DecodeScan(readable, scanned) ELSE NoReasm)
    /\ decrypted' = (IF present THEN DecodeDecrypt(readable, reasm', dec_pass')
                     ELSE NoDecrypted)
    /\ result' = app_view_decode(present, readable, reasm', decrypted', frames)
    /\ http_status' = 200
    /\ UNCHANGED <<in_text, in_chunk, in_pass, payload, image, enc_err, readable, scanned>>

NextScan ==
    \/ \E symbol \in SymbolPool : ScanStray(symbol)
    \/ /\ op = "uploaded"
       /\ \E passphrase \in Passphrases, frames \in CallerFrames : Decode(passphrase, frames)
    \/ \E present \in BOOLEAN, form \in HandlerPassphrases, args \in HandlerPassphrases,
          frames \in CallerFrames : DecodeApi(present, form, args, frames)
    \/ \E present \in BOOLEAN, passphrase \in HandlerPassphrases, frames \in CallerFrames :
           AppViewDecode(present, passphrase, frames)

SpecScan == InitScan /\ [][NextScan]_vars

\* the frames among the scanned strings that the loop accepts, in scan order
AcceptedFrames ==
    LET accepted(c) == ParseFrame(c).ok
    IN  CHOOSE frames \in {[j \in 1..Len(kept) |-> ParseFrame(kept[j])] :
                           kept \in {SelectSeq(scanned, accepted)}} : TRUE

\* those of the accepted frames that have the first message id met
SelectedFrames(accepted) ==
    LET selected(f) == f.msg_id = accepted[1].msg_id
    IN  SelectSeq(accepted, selected)

\* the indices below the selected message's total that none of its frames has
AbsentIndices(selected) ==
    {i \in 0..(selected[1].total - 1) : \A j \in 1..Len(selected) : selected[j].idx # i}

RECURSIVE Ascending(_)
\* the members of a finite set of integers in ascending order
Ascending(S) ==
    IF S = {} THEN <<>>
    ELSE LET least == CHOOSE x \in S : \A y \in S : x <= y
         IN  <<least>> \o Ascending(S \ {least})

\* C4: when the frames of the selected message leave an index below its total
\* uncovered, reassembly fails with the missing-chunks error that lists
\* exactly the uncovered indices in ascending order, and decode returns no
\* payload, no text and no hash.
C4_MissingChunks ==
    (op = "decoded" /\ readable) =>
        \A accepted \in {AcceptedFrames} : accepted # <<>> =>
            \A absent \in {AbsentIndices(SelectedFrames(accepted))} : absent # {} =>
                /\ reasm = [payload |-> None,
                            err |-> Some(MissingChunksError(Ascending(absent)))]
                /\ result = Result(None, None, reasm.err)

\* of a complete three-frame message the middle frame was not reported, and
\* the error lists exactly its index
C4_Witness ==
    /\ op = "decoded" /\ readable
    /\ \E i, j \in 1..Len(scanned) : scanned[i] = PoolMessage[1] /\ scanned[j] = PoolMessage[3]
    /\ \A j \in 1..Len(scanned) : scanned[j] \in {PoolMessage[1], PoolMessage[3]}
    /\ reasm.err = Some(MissingChunksError(<<1>>))

\* C5: whatever decode returns, an error comes with no text, and an error
\* comes with a hash only when it is the integrity error; an unreadable image,
\* a failed scan, missing chunks and a failed decryption return neither text
\* nor hash.  The answers of the two decode handlers have the same shape.
C5_ResultShape ==
    op \in {"decoded", "api_decoded", "web_decoded"}
        => /\ result.err # None => result.text = None
           /\ (result.err # None /\ result.sha # None) => result.err = Some(IntegrityError)
           /\ (result.err # None /\ result.err # Some(IntegrityError))
                  => (result.text = None /\ result.sha = None)

\* an integrity failure was returned with the stored hash and no text
C5_Witness ==
    /\ op = "decoded"
    /\ result.err = Some(IntegrityError)
    /\ result.sha = Some(Sha256Hex(Str(<<"a">>)))
    /\ result.text = None

\* the scanned strings that are frames of message msg_id
OnlySelected(msg_id) ==
    LET selected(c) == ParseFrame(c).ok /\ ParseFrame(c).msg_id = msg_id
    IN  SelectSeq(scanned, selected)

\* C7: reassembly works on the frames of the first message id met alone:
\* its payload or error is what the frames of that id give by themselves,
\* and its completeness check reads the total of that id's first frame.
C7_FirstMessageOnly ==
    (op = "decoded" /\ readable) =>
        \A accepted \in {AcceptedFrames} : accepted # <<>> =>
            \A selected \in {SelectedFrames(accepted)} :
                /\ reasm = decode_big_image(OnlySelected(accepted[1].msg_id))
                /\ reasm.err = None =>
                       reasm.payload[1] =
                           Concat([k \in 1..selected[1].total |->
                               selected[CHOOSE j \in 1..Len(selected) :
                                           /\ selected[j].idx = k - 1
                                           /\ \A l \in (j + 1)..Len(selected) :
                                                  selected[l].idx # k - 1].chunk])

\* frames of two message ids were scanned, the single-frame message first,
\* and its chunk alone came back
C7_Witness ==
    /\ op = "decoded" /\ readable
    /\ Len(scanned) >= 2
    /\ scanned[1] = PoolTampered
    /\ \E j \in 1..Len(scanned) : scanned[j] = PoolMessage[1]
    /\ reasm = [payload |-> Some(ParseFrame(PoolTampered).chunk), err |-> None]

\* what the claim accepts as a frame: four fields, index and total integers >= 0
ClaimedFrame(c) ==
    /\ Len(Split(c, C("|"), 3)) = 4
    /\ ParseInt(Split(c, C("|"), 3)[2]).ok /\ ParseInt(Split(c, C("|"), 3)[2]).val >= 0
    /\ ParseInt(Split(c, C("|"), 3)[3]).ok /\ ParseInt(Split(c, C("|"), 3)[3]).val >= 0

\* C8 as claimed: a string is accepted as a frame only if it has four fields
\* and a non-negative integer index and total; every other string is skipped
\* without affecting the result, and when none is accepted reassembly fails
\* with "Invalid QR format.".
C8_FrameParsingClaimed ==
    (op = "decoded" /\ readable /\ scanned # <<>>)
        => reasm = IF SelectSeq(scanned, ClaimedFrame) = <<>>
                   THEN [payload |-> None, err |-> Some(FormatError)]
                   ELSE decode_big_image(SelectSeq(scanned, ClaimedFrame))

-----------------------------------------------------------------------------
(* SpecEnvelope: an envelope, one character of its text field replaced,     *)
(* then unwrapped directly or decoded from the frames that carry it         *)

\* the characters put in place of one
TamperChars == {C("b"), C("B"), C("n"), C("u"), C("\""), C("\\"), 9, 233}

\* the envelope's text field, between its quotes
TextField(p, text) == SubSeq(p, Len(JsonDumps(Sha256Hex(text), <<>>)) - 1, Len(p) - 2)

InitEnvelope == op = "empty" /\ readable = TRUE /\ Blank

\* wrap_payload_with_checksum(text)
Wrap(text) ==
    /\ op = "empty"
    /\ op' = "wrapped"
    /\ in_text' = text
    /\ payload' = wrap_payload_with_checksum(text)
    /\ UNCHANGED <<in_chunk, in_pass, image, enc_err, http_status, readable, scanned,
                   dec_pass, reasm, decrypted, result>>

\* one character of the text field is replaced by another, the hash kept
Tamper(pos, c) ==
    /\ op = "wrapped"
    /\ pos \in (Len(payload) - 1 - Len(TextField(payload, in_text)))..(Len(payload) - 2)
    /\ c # payload[pos]
    /\ payload' = [payload EXCEPT ![pos] = c]
    /\ op' = "tampered"
    /\ UNCHANGED <<in_text, in_chunk, in_pass, image, enc_err, http_status, readable,
                   scanned, dec_pass, reasm, decrypted, result>>

\* unwrap_and_verify_payload(payload)
Unwrap(frames) ==
    /\ op \in {"wrapped", "tampered"}
    /\ op' = IF op = "tampered" THEN "tampered_unwrapped" ELSE "unwrapped"
    /\ result' = unwrap_and_verify_payload(payload, frames)
    /\ UNCHANGED <<in_text, in_chunk, in_pass, payload, image, enc_err, http_status,
                   readable, scanned, dec_pass, reasm, decrypted>>

\* decode_big_qr_to_text on an image whose frames carry the payload
DecodeCarried(chunk_size, frames) ==
    /\ op \in {"wrapped", "tampered"}
    /\ op' = IF op = "tampered" THEN "tampered_decoded" ELSE "decoded"
    /\ in_chunk' = Some(chunk_size)
    /\ image' = ImageOf(BuildFrames(payload, chunk_size, MsgIds[1]))
    /\ scanned' = image'[1]
    /\ dec_pass' = None
    /\ reasm' = DecodeScan(readable, scanned')
    /\ decrypted' = DecodeDecrypt(readable, reasm', None)
    /\ result' = decode_big_qr_to_text(readable, reasm', decrypted', frames)
    /\ UNCHANGED <<in_text, in_pass, payload, enc_err, http_status, readable>>

NextEnvelope ==
    \/ \E text \in EnvelopeTexts : Wrap(text)
    \/ /\ op = "wrapped"
       /\ \E pos \in 1..Len(payload), c \in TamperChars : Tamper(pos, c)
    \/ \E frames \in CallerFrames : Unwrap(frames)
    \/ \E chunk_size \in {40, 120}, frames \in CallerFrames : DecodeCarried(chunk_size, frames)

SpecEnvelope == InitEnvelope /\ [][NextEnvelope]_vars

\* what the characters of body denote as the body of a JSON string; ok is
\* FALSE when they are not the body of one: a bare quote or control
\* character, or a backslash that starts no escape
Denoted(body) ==
    CHOOSE d \in {[ok |-> st.ok /\ st.mode = "str", val |-> st.acc] :
                  st \in {JsonRun([JsonStart EXCEPT !.mode = "str"], body, 1, Len(body))}} :
        TRUE

\* what the tampered text field denotes
TamperedText == Denoted(TextField(payload, in_text))

\* C3 as claimed: replacing any single character of the envelope's text field
\* by any other character makes unwrap and decode return the integrity error
\* with no text.
C3_TamperDetectedClaimed ==
    op \in {"tampered_unwrapped", "tampered_decoded"} => (result.err = Some(IntegrityError) /\ result.text = None)

\* C3: after one character of the envelope's text field is replaced, unwrap
\* and decode return the integrity error with the stored hash and no text
\* when the field is still the body of a JSON string and denotes another
\* text that UTF-8 can encode; they raise UnicodeEncodeError when it denotes
\* a text with half a surrogate pair; they return the original text with its
\* hash and no error when it denotes the same text; and they return the
\* whole tampered payload as text, with no hash and no error, when the field
\* is no longer the body of a JSON string.
C3_TamperOutcome ==
    op \in {"tampered_unwrapped", "tampered_decoded"} =>
        result = IF ~TamperedText.ok THEN Result(Some(payload), None, None)
                 ELSE IF ~IsEncodable(TamperedText.val) THEN Result(None, None, Some(EncodeError))
                 ELSE IF TamperedText.val = in_text
                     THEN Result(Some(in_text), Some(Sha256Hex(in_text)), None)
                 ELSE Result(None, Some(Sha256Hex(in_text)), Some(IntegrityError))

\* a replaced character left a JSON string of another text, and the integrity
\* error came back with the stored hash
C3_Witness ==
    /\ op = "tampered_decoded"
    /\ in_text = Str(<<"a">>)
    /\ TextField(payload, in_text) = Str(<<"b">>)
    /\ Len(scanned) >= 2
    /\ result = Result(None, Some(Sha256Hex(Str(<<"a">>))), Some(IntegrityError))

-----------------------------------------------------------------------------
(* SpecEncode: one request to an encode handler *)

\* the "data" of a JSON body: absent, null, a number, an empty list, or a
\* string, one of them half a surrogate pair
ApiData ==
    {Absent, Json("null", <<>>), Json("int", <<7>>), Json("list", <<0>>)}
        \cup {Json("str", t) : t \in Texts \cup {<<55296>>}}

\* the "chunk_size" of a JSON body: absent, an integer, or a value int()
\* converts (true, 2.5, -2.5, "7") or raises for (null, NaN, "x", [])
ApiChunkSizes ==
    {Absent} \cup {Json("int", <<n>>) : n \in (-1)..MaxChunk}
        \cup {Json("bool", <<1>>), Json("float", <<5, 2>>), Json("float", <<-5, 2>>),
              Json("str", Str(<<"7">>)), Json("null", <<>>), Json("float", <<0, 0>>),
              Json("str", Str(<<"x">>)), Json("list", <<0>>)}

\* the "passphrase" of a JSON body: absent, a string, or a value that is
\* none: 7, [1], true
ApiPassphrases ==
    {Absent, Json("str", <<>>), Json("str", Str(<<"p">>)), Json("int", <<7>>),
     Json("list", <<1>>), Json("bool", <<1>>)}

\* the bodies of the requests: none that is JSON, a list, and the objects
ApiBodies ==
    {Json("null", <<>>), Json("list", <<1>>)}
        \cup {Json("object", <<data, chunk_size, passphrase>>) :
              data \in ApiData, chunk_size \in ApiChunkSizes, passphrase \in ApiPassphrases}

\* the "chunk_size" of a form: absent, empty, no number, or a number
FormChunkSizes ==
    {None, Some(<<>>), Some(Str(<<"x">>))} \cup {Some(IntToStr(n)) : n \in (-1)..MaxChunk}

InitEncode == op = "idle" /\ readable = TRUE /\ Blank

\* POST /api/encode: the text, chunk_size and passphrase are what the
\* handler has of the body when it answers.  It reads data, then
\* chunk_size, then the passphrase: get() of a body that is no object
\* raises before any is read, and int() before the passphrase is
EncodeApi(body, msg_id, iv) ==
    /\ op = "idle"
    /\ op' = "api_encoded"
    /\ \E members \in {ApiPayload(body)} :
           /\ in_text' = (IF body.kind # "object" /\ Truthy(body) THEN <<>>
                          ELSE ApiEncodeData(members.data))
           /\ in_chunk' = (IF (body.kind # "object" /\ Truthy(body))
                               \/ ~ApiChunkSize(members.chunk_size).ok THEN None
                           ELSE Some(ApiChunkSize(members.chunk_size).val))
           /\ in_pass' = (IF in_chunk' = None THEN None
                          ELSE ApiEncodePassphrase(members.passphrase))
           /\ payload' = EncodePayload(in_chunk' = None \/ ~Truthy(members.data)
                                           \/ members.data.kind # "str"
                                           \/ (Truthy(members.passphrase)
                                               /\ members.passphrase.kind # "str"),
                                       members.data.val, in_pass', iv)
    /\ \E response \in {encode_api(body, msg_id, iv)} :
           /\ image' = ImageOf(response)
           /\ enc_err' = response.err
           /\ http_status' = response.status
    /\ UNCHANGED <<readable, scanned, dec_pass, reasm, decrypted, result>>

\* POST /app with mode=encode: the handler reads the text, then chunk_size,
\* then the passphrase, which it has not read when int() raises
AppViewEncode(text, chunk_size, passphrase, msg_id, iv) ==
    /\ op = "idle"
    /\ op' = "web_encoded"
    /\ in_text' = text
    /\ in_chunk' = (IF FormChunkSize(chunk_size).ok THEN Some(FormChunkSize(chunk_size).val)
                    ELSE None)
    /\ in_pass' = (IF in_chunk' = None THEN None ELSE FormPassphrase(passphrase))
    /\ payload' = EncodePayload(in_chunk' = None \/ Strip(text) = <<>>, text, in_pass', iv)
    /\ \E response \in {app_view_encode(text, chunk_size, passphrase, msg_id, iv)} :
           /\ image' = ImageOf(response)
           /\ enc_err' = response.err
           /\ http_status' = response.status
    /\ UNCHANGED <<readable, scanned, dec_pass, reasm, decrypted, result>>

NextEncode ==
    \/ /\ op = "idle"
       /\ \E body \in ApiBodies, msg_id \in {MsgIds[1], MsgIds[2]} :
             \E iv \in (IF ApiPayload(body).passphrase.kind = "str"
                          THEN IVsFor(Some(ApiPayload(body).passphrase.val)) ELSE {0}) :
                 EncodeApi(body, msg_id, iv)
    \/ /\ op = "idle"
       /\ \E text \in FormTexts, chunk_size \in FormChunkSizes,
             passphrase \in EncodePassphrases, msg_id \in {MsgIds[1], MsgIds[2]} :
             \E iv \in IVsFor(passphrase) :
                 AppViewEncode(text, chunk_size, passphrase, msg_id, iv)

SpecEncode == InitEncode /\ [][NextEncode]_vars

\* C10: for chunk_size >= 1 the image holds ceil(len(payload) / chunk_size)
\* frames; frame k carries index k - 1, the number of frames as its total, and
\* the k-th slice of chunk_size characters of the payload, which is not
\* empty and is shorter than chunk_size only when it is the last; the slices
\* in order make up the payload; and a chunk_size of at least len(payload)
\* gives one frame with index 0 and total 1.
C10_Chunking ==
    (op \in {"api_encoded", "web_encoded"} /\ image # None) =>
        \A frames \in {[k \in 1..Len(image[1]) |-> ParseFrame(image[1][k])]} :
           /\ in_chunk[1] >= 1
           /\ Len(frames) = (Len(payload) + in_chunk[1] - 1) \div in_chunk[1]
           /\ \A k \in 1..Len(frames) :
                 /\ frames[k].ok
                 /\ frames[k].idx = k - 1
                 /\ frames[k].total = Len(frames)
                 /\ frames[k].chunk # <<>>
                 /\ frames[k].chunk =
                        SubSeq(payload, (k - 1) * in_chunk[1] + 1,
                               IF k * in_chunk[1] <= Len(payload) THEN k * in_chunk[1]
                               ELSE Len(payload))
                 /\ k < Len(frames) => Len(frames[k].chunk) = in_chunk[1]
           /\ Concat([k \in 1..Len(frames) |-> frames[k].chunk]) = payload
           /\ in_chunk[1] >= Len(payload)
                  => (Len(frames) = 1 /\ frames[1].idx = 0 /\ frames[1].total = 1)

\* a payload was cut into several frames, the last shorter than chunk_size
C10_Witness ==
    /\ op \in {"api_encoded", "web_encoded"}
    /\ image # None
    /\ Len(image[1]) >= 3
    /\ Len(payload) % in_chunk[1] # 0
    /\ Len(ParseFrame(image[1][Len(image[1])]).chunk) < in_chunk[1]
    /\ ParseFrame(image[1][Len(image[1])]).idx = Len(image[1]) - 1

====
